---- MODULE Spec2Model ----
(***************************************************************************)
(* Model of the web-explorer session orchestration engine:                 *)
(*   - ProxyManager (proxy/index.ts): round-robin pool with eviction       *)
(*   - Explorer.run / recoverWithNewProxy (explorer/index.ts, recovery.ts) *)
(*   - explorationLoop / performRandomAction (explorer/loop.ts)            *)
(*   - Reporter (reporter/index.ts) and main (index.ts)                    *)
(* Time is counted in abstract ticks; every session reads its own clock.   *)
(***************************************************************************)
EXTENDS Naturals, Integers, Sequences, FiniteSets, TLC

\* ------------------------------------------------------------------ bounds
\* number of proxy entries parsed from the proxies file
NumProxies == 2
\* largest config.maxPages
MaxPages == 3
\* largest config.maxDuration, in clock ticks
MaxDuration == 2
\* largest config.maxActionsPerPage
MaxActionsPerPage == 1
\* actions of one page cycle, when the action loop is exercised on its own
CycleActions == 2
\* lines of a proxies file, and candidates of a health check, exercised alone
MaxLines == 2
MaxCands == 4
\* filterWorkingProxies: concurrency = 3
Concurrency == 3
\* the largest finite z0 drawn, the largest bound of a randomInt call and the
\* longest array shuffled
MaxZ == 3
MaxInt == 3
MaxShuffle == 3
\* simulateReading: gaussianRandom(6000, 2000) clamped to [3000, 12000]
ReadingMean == 6000
ReadingStddev == 2000
ReadingMin == 3000
ReadingMax == 12000
\* a[href] elements of a page whose links are collected on their own
MaxAnchors == 2
\* entries of the session history of a page on which back is exercised
MaxHistory == 3
\* DEFAULT_CONFIG.instances
Instances == 2

Sessions == 1 .. Instances
\* "undefined" / "null"
Nothing == 0

VARIABLES
    \* ProxyManager
    proxies,          \* this.proxies: sequence of entries
    currentIndex,     \* this.currentIndex
    \* observation of the calls made on the ProxyManager
    dead,             \* addresses passed to markDead so far
    lastCall,         \* the latest getNext/markDead call and what it saw
    lastEvict,        \* the latest markDead: address, and whether it hit the cursor
    served,           \* results of the getNext calls since the last markDead
    \* main
    config,           \* the ExplorerConfig returned by loadConfig
    obs,              \* the latest call of a component exercised on its own
    mainPc,
    \* Explorer, one per instance
    pc,               \* position in run() / recoverWithNewProxy / explorationLoop
    attempt,          \* 0: inside run()'s try block, 1: inside recoverWithNewProxy
    targetPages,      \* this.targetPages
    targetDuration,   \* this.targetDuration
    startTime,        \* this.startTime
    clock,            \* Date.now() as read by this session
    visitedUrls,      \* this.visitedUrls, a Set kept in insertion order
    currentProxy,     \* this.currentProxy
    session,          \* this.session: handle id or Nothing
    open,             \* handles launched and not yet closed
    launched,         \* number of handles launched so far
    \* explorationLoop
    loopCtx,          \* LoopContext: targetPages, targetDuration, startTime
    pageUrl,          \* page.url()
    currentUrl,       \* const currentUrl of the page cycle
    actionsTarget,
    actionsPerformed,
    \* Reporter
    rVisited,         \* reporter.visitedUrls
    totalActions,     \* reporter.actions.length
    proxyUsed,        \* reporter.proxyUsed
    report,           \* the emitted SessionReport, NoReport before
    reports,          \* number of generateReport() calls
    \* observation of a session
    fatalFrom,        \* where each exception that left its component arose
    snap,             \* the Explorer's fields when its catch block was entered
    loopExit,         \* how explorationLoop returned, and what it logged about it
    calls             \* markDead / getNext calls and loop entries per session

poolVars == <<proxies, currentIndex, dead, lastCall, lastEvict, served>>
budgetVars == <<targetPages, targetDuration, startTime>>
handleVars == <<session, open, launched>>
pageVars == <<pageUrl>>
cycleVars == <<currentUrl, actionsTarget, actionsPerformed>>
reporterVars == <<rVisited, totalActions, proxyUsed, report, reports>>
sessVars == <<pc, attempt, targetPages, targetDuration, startTime, clock, visitedUrls,
              currentProxy, session, open, launched, loopCtx, pageUrl,
              currentUrl, actionsTarget, actionsPerformed, rVisited, totalActions,
              proxyUsed, report, reports, fatalFrom, snap, loopExit, calls>>
vars == <<proxies, currentIndex, dead, lastCall, lastEvict, served, config, obs, mainPc,
          pc, attempt, targetPages, targetDuration, startTime, clock, visitedUrls,
          currentProxy, session, open, launched, loopCtx, pageUrl,
          currentUrl, actionsTarget, actionsPerformed, rVisited, totalActions,
          proxyUsed, report, reports, fatalFrom, snap, loopExit, calls>>

\* ------------------------------------------------------------ ProxyEntry
\* entry.server, the canonical address: the first two lines of the file
\* carry different addresses, later lines repeat them (same host:port, e.g.
\* with different credentials)
Server(e) == ((e - 1) % 2) + 1

\* a line of the proxies file: an entry line carries the id of its entry
BlankLine == [kind |-> "blank", id |-> 0]
CommentLine == [kind |-> "comment", id |-> 0]
JunkLine == [kind |-> "junk", id |-> 0]
EntryLine(e) == [kind |-> "entry", id |-> e]

\* a proxies file that exists and holds n entry lines
ProxyFile(n) == [exists |-> TRUE, lines |-> [i \in 1 .. n |-> EntryLine(i)]]

\* parseProxyLine(line) throws for a line that is no proxy URL
Parses(line) == line.kind = "entry"
ParseProxyLine(line) == line.id

RECURSIVE ParseLines(_, _)
\* loadProxies, the loop over the lines: blank lines and comments are
\* skipped, a line that does not parse is skipped with a warning
ParseLines(lines, parsed) ==
    IF lines = <<>> THEN parsed
    ELSE IF Head(lines).kind \in {"blank", "comment"} THEN ParseLines(Tail(lines), parsed)
    ELSE IF Parses(Head(lines)) THEN ParseLines(Tail(lines), Append(parsed, ParseProxyLine(Head(lines))))
    ELSE ParseLines(Tail(lines), parsed)

LoadProxiesLenient(file) == [threw |-> FALSE, entries |-> IF file.exists THEN ParseLines(file.lines, <<>>) ELSE <<>>]
\* loadProxies(filePath): throws when the file does not exist
LoadProxies(file) ==
    IF ~file.exists THEN [threw |-> TRUE, entries |-> <<>>]
    ELSE [threw |-> FALSE, entries |-> ParseLines(file.lines, <<>>)]

\* ---------------------------------------------------------- checker
Min(a, b) == IF a < b THEN a ELSE b

\* Array.prototype.slice(from, to): 0-based, to exclusive, clamped
Slice(a, from, to) == SubSeq(a, from + 1, Min(to, Len(a)))

RECURSIVE Chunks(_, _, _)
\* for (let i = 0; i < proxies.length; i += concurrency) chunks.push(slice)
Chunks(ps, i, c) ==
    IF i < Len(ps) THEN <<Slice(ps, i, i + c)>> \o Chunks(ps, i + c, c) ELSE <<>>

ChunkResultsFailFast(chunk, base, ok) ==
    [j \in 1 .. Len(chunk) |->
        [proxy |-> chunk[j], ok |-> \A k \in 1 .. Len(chunk) : (base + k) \in ok]]
\* Promise.all(chunk.map(async (proxy) => ({proxy, ok: await checkProxy(proxy)})));
\* checkProxy resolves false from its catch and never rejects; ok holds the
\* positions of the candidates whose probe resolved true
ChunkResults(chunk, base, ok) ==
    [j \in 1 .. Len(chunk) |-> [proxy |-> chunk[j], ok |-> (base + j) \in ok]]

RECURSIVE PushWorking(_, _)
\* for (const result of results) if (result.ok) working.push(result.proxy)
PushWorking(working, results) ==
    IF results = <<>> THEN working
    ELSE PushWorking(IF Head(results).ok THEN Append(working, Head(results).proxy)
                     ELSE working, Tail(results))

RECURSIVE CheckChunks(_, _, _, _)
\* for (const chunk of chunks) { ... }
CheckChunks(chunks, base, ok, working) ==
    IF chunks = <<>> THEN working
    ELSE CheckChunks(Tail(chunks), base + Len(Head(chunks)), ok,
                     PushWorking(working, ChunkResults(Head(chunks), base, ok)))

\* filterWorkingProxies(proxies, logger, concurrency)
FilterWorkingProxies(ps, ok, c) == CheckChunks(Chunks(ps, 0, c), 0, ok, <<>>)

\* ---------------------------------------------------------- ProxyManager
\* initialize(filePath) on a new manager: whether and how it threw, the
\* pool it left and the number of health checks it ran
InitializeOutcome(file, ok) ==
    LET loaded == LoadProxies(file)
        working == FilterWorkingProxies(loaded.entries, ok, Concurrency)
    IN  IF loaded.threw THEN [error |-> "notFound", pool |-> <<>>, probes |-> 0]
        ELSE IF Len(loaded.entries) = 0 THEN [error |-> "none", pool |-> <<>>, probes |-> 0]
        ELSE [error |-> IF Len(working) = 0 THEN "noWorking" ELSE "none",
              pool |-> working, probes |-> Len(loaded.entries)]

\* the probe outcomes a health check of the file can meet
ProbeOutcomes(file) == SUBSET (1 .. Len(LoadProxies(file).entries))

NextIndexStuck(idx, n) == idx
\* getNext: this.currentIndex = (this.currentIndex + 1) % this.proxies.length
NextIndex(idx, n) == (idx + 1) % n

RemoveDeadNoop(ps, addr) == ps
\* markDead: this.proxies.filter((p) => p.server !== proxy.server)
RemoveDead(ps, addr) == SelectSeq(ps, LAMBDA p : Server(p) # addr)

NormalizeIndexAlways(idx, n) == 0
NormalizeIndexOffByOne(idx, n) == IF idx > n THEN 0 ELSE idx
\* markDead: if (this.currentIndex >= this.proxies.length) this.currentIndex = 0
NormalizeIndex(idx, n) == IF idx >= n THEN 0 ELSE idx

\* markDead(proxy): the list and the cursor it leaves
MarkDeadOutcome(ps, idx, e) ==
    LET left == RemoveDead(ps, Server(e))
    IN  [pool |-> left, idx |-> NormalizeIndex(idx, Len(left))]

GetNextResultPhantom == IF Len(proxies) = 0 THEN 1 ELSE proxies[currentIndex + 1]
\* the value getNext() returns in the current state
GetNextResult == IF Len(proxies) = 0 THEN Nothing ELSE proxies[currentIndex + 1]

\* the entry under the cursor, observed independently of getNext
AtCursor == IF currentIndex + 1 \in DOMAIN proxies THEN proxies[currentIndex + 1] ELSE Nothing

MaxServed == NumProxies + 1
Window(s) == IF Len(s) > MaxServed THEN Tail(s) ELSE s

\* getNext(), called by session s
GetNext(s) ==
    /\ currentIndex' = IF Len(proxies) = 0 THEN currentIndex
                       ELSE NextIndex(currentIndex, Len(proxies))
    /\ UNCHANGED <<proxies, dead, lastEvict>>
    /\ lastCall' = [op |-> "getNext", ret |-> GetNextResult,
                    size |-> Len(proxies), idx |-> currentIndex, at |-> AtCursor]
    /\ served' = Window(Append(served, GetNextResult))

\* markDead(e), called by session s
MarkDead(s, e) ==
    /\ proxies' = MarkDeadOutcome(proxies, currentIndex, e).pool
    /\ currentIndex' = MarkDeadOutcome(proxies, currentIndex, e).idx
    /\ dead' = dead \cup {Server(e)}
    /\ lastCall' = [op |-> "markDead", ret |-> e,
                    size |-> Len(proxies), idx |-> currentIndex, at |-> AtCursor]
    /\ lastEvict' = [addr |-> Server(e),
                     atCursor |-> AtCursor # Nothing /\ Server(AtCursor) = Server(e)]
    /\ served' = <<>>

\* getCount()
GetCount == Len(proxies)


\* ------------------------------------------------------------------ site
\* config.url and the other pages a session can be on
Target == "http://site/"
PageA == "http://site/a"
External == "http://other/"
Blank == "about:blank"
Urls == {Target, PageA, External, Blank}

\* url.startsWith('http')
IsHttp(u) == u \in {Target, PageA, External}

\* new URL(u).origin
Origin(u) == IF u \in {Target, PageA} THEN "http://site"
             ELSE IF u = External THEN "http://other" ELSE "null"

\* the resolved href of every a[href] of a page
Anchors(u) == IF u = Target THEN {Target, PageA, External}
              ELSE IF u = PageA THEN {Target, External}
              ELSE IF u = External THEN {Target}
              ELSE {}

\* collectInternalLinks: the same-origin links of the page, deduplicated
InternalLinks(u) == IF ~IsHttp(u) THEN {}
                    ELSE {v \in Anchors(u) : Origin(v) = Origin(u)}

\* --------------------------------------------------------------- helpers
Range(f) == {f[i] : i \in DOMAIN f}

IsPrefix(a, b) == Len(a) <= Len(b) /\ \A i \in DOMAIN a : a[i] = b[i]

NoDuplicates(q) == \A i, j \in DOMAIN q : q[i] = q[j] => i = j

SetAddAlways(q, u) == Append(q, u)
\* Set.prototype.add on a Set kept in insertion order
SetAdd(q, u) == IF u \in Range(q) THEN q ELSE Append(q, u)

RecordPageVisitPush(visited, url) == Append(visited, url)
\* Reporter.recordPageVisit(url): this.visitedUrls.add(url), on a Set
RecordPageVisit(visited, url) == SetAdd(visited, url)

\* isTimedOut(ctx): (Date.now() - ctx.startTime) / 1000 >= ctx.targetDuration
IsTimedOut(now, ctx) == now - ctx.startTime >= ctx.targetDuration

NoReport == [pagesVisited |-> 0, visitedUrls |-> <<>>, totalActions |-> 0, proxyUsed |-> Nothing]
NoCtx == [targetPages |-> 0, targetDuration |-> 0, startTime |-> 0]
NoObs == [fn |-> "none"]
NoExit == [why |-> "none", log |-> {}]
NoSnap == [visitedUrls |-> <<>>, targetPages |-> 0, targetDuration |-> 0, startTime |-> 0]

\* the Explorer's fields as the catch block of run() finds them
Snapshot(s) == [visitedUrls |-> visitedUrls[s], targetPages |-> targetPages[s],
                targetDuration |-> targetDuration[s], startTime |-> startTime[s]]

\* ------------------------------------------------------------- humanizer
\* Math.random(), in hundredths: a value of [0, 1)
Rolls == 0 .. 99

RandomIntExclusive(min, max, roll) == ((roll * (max - min)) \div 100) + min
\* randomInt: Math.floor(Math.random() * (max - min + 1)) + min
RandomIntOf(min, max, roll) == ((roll * (max - min + 1)) \div 100) + min

\* randomInt(min, max): the integers it can return
RandomInt(min, max) == {RandomIntOf(min, max, roll) : roll \in Rolls}

\* z0 of the Box-Muller transform, in standard deviations; Math.log(0) makes
\* it infinite, of either sign (a value beyond every clamp bound)
Infinity == 10 ^ 5
Z0s == (-MaxZ .. MaxZ) \cup {-Infinity, Infinity}

\* gaussianRandom(mean, stddev): z0 * stddev + mean
GaussianRandom(mean, stddev, z0) == z0 * stddev + mean

ClampFromBelow(lo, hi, x) == IF x < lo THEN lo ELSE x
\* Math.max(lo, Math.min(hi, x))
Clamp(lo, hi, x) ==
    LET capped == IF x < hi THEN x ELSE hi
    IN  IF capped > lo THEN capped ELSE lo

\* humanDelay(minMs, maxMs): the duration it sleeps
HumanDelay(minMs, maxMs, z0) ==
    Clamp(minMs, maxMs, GaussianRandom((minMs + maxMs) \div 2, (maxMs - minMs) \div 4, z0))

\* simulateReading: Math.round(gaussianRandom(6000, 2000)), clamped
ReadingDuration(z0) ==
    Clamp(ReadingMin, ReadingMax, GaussianRandom(ReadingMean, ReadingStddev, z0))

\* the (minMs, maxMs) pairs humanDelay is called with
DelayRanges == {<<800, 3000>>, <<2000, 4000>>, <<300, 600>>, <<500, 1000>>, <<1500, 3000>>}

SwapOverwrite(a, i, j) == [a EXCEPT ![i] = a[j]]
\* [result[i], result[j]] = [result[j], result[i]]
Swap(a, i, j) == [a EXCEPT ![i] = a[j], ![j] = a[i]]

RECURSIVE ShuffleFrom(_, _, _)
\* shuffle, the loop for (let i = result.length - 1; i > 0; i--) from i on;
\* js[i] is the j = randomInt(0, i) drawn at step i (indices 0-based)
ShuffleFrom(result, js, i) ==
    IF i > 0 THEN ShuffleFrom(Swap(result, i + 1, js[i] + 1), js, i - 1) ELSE result

\* shuffle(arr) under the draws js
Shuffle(arr, js) == ShuffleFrom(arr, js, Len(arr) - 1)

\* the draws a shuffle of n elements can meet
ShuffleDraws(n) ==
    {js \in [1 .. (IF n > 0 THEN n - 1 ELSE 0) -> 0 .. n] : \A i \in DOMAIN js : js[i] \in RandomInt(0, i)}

\* ---------------------------------------------------------------- config
\* DEFAULT_CONFIG.url
DefaultUrl == ""

\* what explorer.config.json supplies as url: no file, a file that does not
\* parse, a file without a url (or with an empty one), or a url
FileUrls == {"missing", "invalid", "", Target}

\* what the CLI flags supply: no --url flag, --url without a value, or a url
CliUrls == {"none", "", Target}

\* mergeConfig: url: (file.url as string) || base.url, when the file parsed
MergeUrl(base, file) ==
    IF file \in {"missing", "invalid"} THEN base
    ELSE IF file # "" THEN file ELSE base

\* applyCliOverrides: case '--url': config.url = next || config.url
ApplyCliUrl(url, cli) ==
    IF cli = "none" THEN url
    ELSE IF cli # "" THEN cli ELSE url

ValidateLenient(url) == [exit |-> 0, usage |-> FALSE]
\* loadConfig, step 3: if (!config.url) { ...; printUsage(); process.exit(1) }
Validate(url) == IF url = "" THEN [exit |-> 1, usage |-> TRUE] ELSE [exit |-> 0, usage |-> FALSE]

\* loadConfig(args): the url of the configuration, and whether the process
\* was ended, with which status and after printing the usage
LoadConfigOutcome(base, file, cli) ==
    LET url == ApplyCliUrl(MergeUrl(base, file), cli)
    IN  [url |-> url, exit |-> Validate(url).exit, usage |-> Validate(url).usage]

\* ------------------------------------------------------------------ main
\* const config = loadConfig(process.argv.slice(2)), the first statement of
\* main: process.exit(1) ends the run there
LoadConfig ==
    /\ mainPc = "start"
    /\ \E file \in FileUrls : \E cli \in CliUrls :
          LET out == LoadConfigOutcome(config.url, file, cli)
          IN  /\ config' = [config EXCEPT !.url = out.url]
              /\ mainPc' = IF out.exit = 1 THEN "exit1" ELSE "init"
    /\ UNCHANGED <<poolVars, obs, sessVars>>

\* proxyManager.initialize(config.proxiesFile): the pool becomes the entries
\* that passed the health check (none when initialize threw)
Initialize ==
    /\ mainPc = "init"
    /\ \E ok \in ProbeOutcomes(config.proxiesFile) :
          proxies' = InitializeOutcome(config.proxiesFile, ok).pool
    /\ mainPc' = "launch"
    /\ UNCHANGED <<currentIndex, dead, lastCall, lastEvict, served, config, obs, sessVars>>

\* the instances main launches
Active == 1 .. config.instances

\* the targets the constructors can draw; in a run of several instances the
\* draws of the instances after the first are kept at the minimum
TargetDraws(min, max) ==
    {t \in [Sessions -> 0 .. max] :
        \A s \in Sessions :
            IF s \in Active
            THEN t[s] \in RandomInt(min, max) /\ (s > 1 => t[s] = min)
            ELSE t[s] = 0}

\* new Explorer(...) for every instance: the targets are drawn once
Dispatch ==
    /\ mainPc = "launch"
    /\ mainPc' = "running"
    /\ targetPages' \in TargetDraws(config.minPages, config.maxPages)
    /\ targetDuration' \in TargetDraws(config.minDuration, config.maxDuration)
    /\ UNCHANGED <<poolVars, config, obs, pc, attempt, startTime, clock, visitedUrls, currentProxy,
                   handleVars, loopCtx, pageVars, cycleVars, reporterVars,
                   fatalFrom, snap, loopExit, calls>>

AnyFinished == \E s \in Active : pc[s] = "done"
\* await explorer.run() / await Promise.all(promises)
AllFinished == \A s \in Active : pc[s] = "done"

\* logger.banner('ALL INSTANCES COMPLETE') / return of main
Complete ==
    /\ mainPc = "running"
    /\ AllFinished
    /\ mainPc' = "complete"
    /\ UNCHANGED <<poolVars, config, obs, sessVars>>

\* -------------------------------------------------------------- Explorer
\* the block-scoped locals of a page cycle (currentUrl, actionsTarget,
\* actionsPerformed) are gone once the cycle's last read of them is over
EndCycle(s) ==
    /\ currentUrl' = [currentUrl EXCEPT ![s] = ""]
    /\ actionsTarget' = [actionsTarget EXCEPT ![s] = 0]
    /\ actionsPerformed' = [actionsPerformed EXCEPT ![s] = 0]

OnFatalRetry(att) == "catch"
OnFatalNoReport(att) == IF att = 0 THEN "catch" ELSE "done"
\* an exception in run()'s try block enters run()'s catch block; one inside
\* recoverWithNewProxy's try block is caught there (return null), and run()
\* goes on to its finally block
OnFatal(att) == IF att = 0 THEN "catch" ELSE "finally"

\* an exception leaves the component it arose in
Throw(s, origin) ==
    /\ pc' = [pc EXCEPT ![s] = OnFatal(attempt[s])]
    /\ EndCycle(s)
    /\ fatalFrom' = [fatalFrom EXCEPT ![s] = Append(@, origin)]
    /\ snap' = IF attempt[s] = 0 THEN [snap EXCEPT ![s] = Snapshot(s)] ELSE snap
    /\ UNCHANGED loopExit

\* the lines explorationLoop and navigateToRandomLink log on the way out:
\*   "guardFailed"  'Failed to recover to target URL - ending exploration'
\*   "noUnvisited"  'No unvisited internal links found'
\*   "navFailed"    'Failed to navigate to ...'
\*   "noMoreLinks"  'No more unvisited links - exploration complete'
\*   "duration"     'Duration limit reached', when isTimedOut(ctx) after the loop
ExitLog(why, timedOut) ==
    (CASE why = "guard"   -> {"guardFailed"}
       [] why = "links"   -> {"noUnvisited", "noMoreLinks"}
       [] why = "navfail" -> {"navFailed", "noMoreLinks"}
       [] OTHER           -> {})
    \cup (IF timedOut THEN {"duration"} ELSE {})

\* explorationLoop returns: run() falls through to finally; in recovery
\* recoverWithNewProxy returns its session, which run() stores in this.session
LoopReturn(s, why) ==
    /\ pc' = [pc EXCEPT ![s] = "finally"]
    /\ EndCycle(s)
    /\ loopExit' = [loopExit EXCEPT ![s] =
                       [why |-> why, log |-> ExitLog(why, IsTimedOut(clock[s], loopCtx[s]))]]
    /\ session' = IF attempt[s] = 1 THEN [session EXCEPT ![s] = launched[s]] ELSE session

\* run(): startTime, getNext, setProxy
Run(s) ==
    /\ mainPc = "running"
    /\ s \in Active
    /\ pc[s] = "new"
    /\ startTime' = [startTime EXCEPT ![s] = clock[s]]
    /\ GetNext(s)
    /\ currentProxy' = [currentProxy EXCEPT ![s] = GetNextResult]
    /\ proxyUsed' = IF GetNextResult # Nothing
                    THEN [proxyUsed EXCEPT ![s] = Server(GetNextResult)] ELSE proxyUsed
    /\ calls' = [calls EXCEPT ![s].getNext = @ + 1]
    /\ pc' = [pc EXCEPT ![s] = "launch"]
    /\ UNCHANGED <<config, obs, mainPc, attempt, targetPages, targetDuration, clock, visitedUrls,
                   handleVars, loopCtx, pageVars, cycleVars, rVisited, totalActions,
                   report, reports, fatalFrom, snap, loopExit>>

\* this.session = await launchBrowser(...)
LaunchBrowser(s) ==
    /\ pc[s] = "launch"
    /\ \/ /\ launched' = [launched EXCEPT ![s] = @ + 1]
          /\ open' = [open EXCEPT ![s] = @ \cup {launched[s] + 1}]
          /\ session' = [session EXCEPT ![s] = launched[s] + 1]
          /\ pageUrl' = [pageUrl EXCEPT ![s] = Blank]
          /\ pc' = [pc EXCEPT ![s] = "goto"]
          /\ UNCHANGED <<fatalFrom, snap, loopExit, cycleVars>>
       \/ /\ Throw(s, "launch")
          /\ UNCHANGED <<handleVars, pageVars>>
    /\ UNCHANGED <<poolVars, config, obs, mainPc, attempt, budgetVars, clock, visitedUrls, currentProxy,
                   loopCtx, reporterVars, calls>>

\* const loopCtx: LoopContext = {...} in run()
RunLoopCtx(s) == [targetPages |-> targetPages[s], targetDuration |-> targetDuration[s],
                  startTime |-> startTime[s]]

\* page.goto(config.url), visitedUrls.add, recordPageVisit, recordAction,
\* humanDelay, then explorationLoop(loopCtx) is entered
InitialGoto(s) ==
    /\ pc[s] = "goto"
    /\ \/ /\ pageUrl' = [pageUrl EXCEPT ![s] = Target]
          /\ visitedUrls' = [visitedUrls EXCEPT ![s] = SetAdd(@, Target)]
          /\ rVisited' = [rVisited EXCEPT ![s] = RecordPageVisit(@, Target)]
          /\ totalActions' = [totalActions EXCEPT ![s] = @ + 1]
          /\ loopCtx' = [loopCtx EXCEPT ![s] = RunLoopCtx(s)]
          /\ calls' = [calls EXCEPT ![s].loops = @ + 1]
          /\ pc' = [pc EXCEPT ![s] = "loopHead"]
          /\ UNCHANGED <<fatalFrom, snap, loopExit, cycleVars>>
       \/ /\ Throw(s, "goto")
          /\ UNCHANGED <<pageVars, visitedUrls, rVisited, totalActions, loopCtx, calls>>
    /\ UNCHANGED <<poolVars, config, obs, mainPc, attempt, budgetVars, clock, currentProxy, handleVars,
                   proxyUsed, report, reports>>

\* ------------------------------------------------------- explorationLoop
\* while (visitedUrls.size < ctx.targetPages && !isTimedOut(ctx))
LoopCond(s) == /\ Len(visitedUrls[s]) < loopCtx[s].targetPages
               /\ ~IsTimedOut(clock[s], loopCtx[s])

CycleEntryUnguarded(url) == "cookie"
\* if (!currentUrl.startsWith('http')) { the guard } else the page cycle
CycleEntry(url) == IF IsHttp(url) THEN "cookie" ELSE "guard"

\* head of a page cycle: the while condition, currentUrl, the non-http guard
LoopHead(s) ==
    /\ pc[s] = "loopHead"
    /\ IF LoopCond(s)
       THEN /\ currentUrl' = [currentUrl EXCEPT ![s] = pageUrl[s]]
            /\ pc' = [pc EXCEPT ![s] = CycleEntry(pageUrl[s])]
            /\ UNCHANGED <<session, actionsTarget, actionsPerformed, loopExit>>
       ELSE LoopReturn(s, IF Len(visitedUrls[s]) < loopCtx[s].targetPages
                          THEN "time" ELSE "pages")
    /\ UNCHANGED <<poolVars, config, obs, mainPc, attempt, budgetVars, clock, visitedUrls, currentProxy,
                   open, launched, loopCtx, pageVars, reporterVars, fatalFrom, snap, calls>>

\* the non-http guard: page.goto(config.url), continue on success, break on failure
GuardGoto(s) ==
    /\ pc[s] = "guard"
    /\ \/ /\ pageUrl' = [pageUrl EXCEPT ![s] = Target]
          /\ pc' = [pc EXCEPT ![s] = "loopHead"]
          /\ EndCycle(s)
          /\ UNCHANGED <<session, loopExit>>
       \/ /\ LoopReturn(s, "guard")
          /\ UNCHANGED pageVars
    /\ UNCHANGED <<poolVars, config, obs, mainPc, attempt, budgetVars, clock, visitedUrls, currentProxy,
                   open, launched, loopCtx, reporterVars, fatalFrom, snap, calls>>

CookieRecordAlways(cur, cookieHandled) == <<[action |-> "cookie", page |-> cur]>>
\* if (cookieHandled) reporter.recordAction('COOKIE', ..., currentUrl)
CookieRecord(cur, cookieHandled) ==
    IF cookieHandled THEN <<[action |-> "cookie", page |-> cur]>> ELSE <<>>

\* handleCookieConsent (never throws), the COOKIE record, and the draw of
\* actionsTarget = randomInt(minActionsPerPage, maxActionsPerPage)
CookieConsent(s) ==
    /\ pc[s] = "cookie"
    /\ \E cookieHandled \in BOOLEAN :
          totalActions' = [totalActions EXCEPT
                              ![s] = @ + Len(CookieRecord(currentUrl[s], cookieHandled))]
    /\ \E n \in RandomInt(config.minActionsPerPage, config.maxActionsPerPage) :
          actionsTarget' = [actionsTarget EXCEPT ![s] = n]
    /\ actionsPerformed' = [actionsPerformed EXCEPT ![s] = 0]
    /\ pc' = [pc EXCEPT ![s] = "actions"]
    /\ UNCHANGED <<poolVars, config, obs, mainPc, attempt, budgetVars, clock, visitedUrls, currentProxy,
                   handleVars, loopCtx, pageVars, currentUrl, rVisited, proxyUsed,
                   report, reports, fatalFrom, snap, loopExit, calls>>

ActionLoopCondUntimed(performed, target, timedOut) == performed < target
\* actionsPerformed < actionsTarget && !isTimedOut(ctx)
ActionLoopCond(performed, target, timedOut) == performed < target /\ ~timedOut

\* while (actionsPerformed < actionsTarget && !isTimedOut(ctx))
ActionCond(s) ==
    ActionLoopCond(actionsPerformed[s], actionsTarget[s], IsTimedOut(clock[s], loopCtx[s]))

KindOfShifted(roll) ==
    IF roll < 25 THEN "scroll" ELSE IF roll < 37 THEN "hover"
    ELSE IF roll < 45 THEN "type" ELSE IF roll < 63 THEN "click"
    ELSE IF roll < 70 THEN "back" ELSE IF roll < 78 THEN "media"
    ELSE IF roll < 85 THEN "zoom" ELSE "idle"
\* performRandomAction: the cascade of if (roll < threshold) branches
KindOf(roll) ==
    IF roll < 25 THEN "scroll"
    ELSE IF roll < 37 THEN "hover"
    ELSE IF roll < 45 THEN "type"
    ELSE IF roll < 63 THEN "click"
    ELSE IF roll < 71 THEN "back"
    ELSE IF roll < 78 THEN "media"
    ELSE IF roll < 85 THEN "zoom"
    ELSE "idle"

\* the kinds performRandomAction can select
ActionKinds == {KindOf(roll) : roll \in Rolls}

\* humanScroll and humanMedia (actions/scroll.ts, actions/media.ts), known by
\* their call sites only: humanScroll returns the pixels scrolled, humanMedia
\* a description or null, and both absorb their own failures
ScrollMediaOutcomes(kind) ==
    IF kind = "scroll" THEN {"done"} ELSE {"none", "done"}

\* what an action module can come back with: "none" (nothing done, or its
\* failure was absorbed inside the module), "done", or "throw" (an exception
\* that the module lets through)
Outcomes(kind) ==
    CASE kind = "hover"  -> {"none", "done"}
      [] kind = "type"   -> {"none", "done", "throw"}
      [] kind = "click"  -> {"none", "done"}
      [] kind = "back"   -> {"none", "done"}
      [] kind = "zoom"   -> {"none", "done"}
      [] kind = "idle"   -> {"done", "throw"}
      [] OTHER           -> ScrollMediaOutcomes(kind)

\* page.url() after an action that started on url: a submitted search, a
\* click or a clicked image (zoom) can lead anywhere; humanBack returns a
\* URL only for another http page, and returns null on about:blank when its
\* goForward fails
LandsFrom(url, kind, res) ==
    IF res = "done"
    THEN CASE kind \in {"type", "click", "zoom"} -> Urls
           [] kind = "back" -> {u \in Urls : IsHttp(u) /\ u # url}
           [] OTHER -> {url}
    ELSE IF kind = "back" /\ res = "none" /\ IsHttp(url) THEN {url, Blank}
    ELSE {url}

\* page.url() after the action of session s
Lands(s, kind, res) == LandsFrom(pageUrl[s], kind, res)

\* whether performRandomAction appends an action record
Records(kind, res) == res = "done"

NavigatedSinceAction(cur, before, kind, res, land) ==
    kind \in {"type", "click", "back"} /\ land # before
\* the value performRandomAction(ctx, currentUrl) returns: cur is its
\* currentUrl argument, before the page URL when it is called
Navigated(cur, before, kind, res, land) ==
    CASE kind \in {"type", "click"} -> res = "done" /\ land # cur
      [] kind = "back" -> res = "done"
      [] OTHER -> FALSE

\* the value performRandomAction returns to the action loop of session s
NavigatedAway(s, kind, res, land) == Navigated(currentUrl[s], pageUrl[s], kind, res, land)

\* one iteration of the action loop: performRandomAction(ctx, currentUrl),
\* actionsPerformed++, break when it navigated
PerformRandomAction(s) ==
    /\ pc[s] = "actions"
    /\ ActionCond(s)
    /\ \E kind \in ActionKinds : \E res \in Outcomes(kind) :
       \E land \in Lands(s, kind, res) : \E dt \in 0 .. 1 :
          /\ kind = "back" /\ res = "done" => IsHttp(pageUrl[s])
          /\ clock' = [clock EXCEPT ![s] = @ + dt]
          /\ IF res = "throw"
             THEN /\ Throw(s, "action")
                  /\ UNCHANGED <<pageVars, visitedUrls, rVisited, totalActions>>
             ELSE /\ pageUrl' = [pageUrl EXCEPT ![s] = land]
                  /\ totalActions' = [totalActions EXCEPT ![s] =
                                         IF Records(kind, res) THEN @ + 1 ELSE @]
                  /\ IF kind \in {"type", "click"} /\ NavigatedAway(s, kind, res, land)
                     THEN /\ visitedUrls' = [visitedUrls EXCEPT ![s] = SetAdd(@, land)]
                          /\ rVisited' = [rVisited EXCEPT ![s] = RecordPageVisit(@, land)]
                     ELSE UNCHANGED <<visitedUrls, rVisited>>
                  /\ actionsPerformed' = [actionsPerformed EXCEPT ![s] = @ + 1]
                  /\ pc' = [pc EXCEPT ![s] = IF NavigatedAway(s, kind, res, land)
                                             THEN "fallback" ELSE "actions"]
                  /\ UNCHANGED <<fatalFrom, snap, loopExit, currentUrl, actionsTarget>>
    /\ UNCHANGED <<poolVars, config, obs, mainPc, attempt, budgetVars, currentProxy, handleVars,
                   loopCtx, proxyUsed, report, reports, calls>>

UnvisitedAll(links, visited) == links
\* navigateToRandomLink: allLinks.filter((url) => !visitedUrls.has(url))
Unvisited(links, visited) == links \ Range(visited)

\* the action loop is over (count reached, timed out, or an action navigated)
AfterActions(s) == pc[s] = "fallback" \/ (pc[s] = "actions" /\ ~ActionCond(s))

FallbackCondAnywhere(url, cur, size, target) == size < target
\* if (page.url() === currentUrl && visitedUrls.size < ctx.targetPages)
FallbackCond(url, cur, size, target) == url = cur /\ size < target

\* the fallback: navigateToRandomLink when the condition holds, else
\* straight to thinkingPause
FallbackNavigate(s) ==
    /\ AfterActions(s)
    /\ IF FallbackCond(pageUrl[s], currentUrl[s], Len(visitedUrls[s]), loopCtx[s].targetPages)
       THEN LET unvisited == Unvisited(InternalLinks(pageUrl[s]), visitedUrls[s]) IN
            \/ /\ IF unvisited = {}
                  THEN /\ LoopReturn(s, "links")
                       /\ UNCHANGED <<pageVars, visitedUrls, rVisited, totalActions>>
                  ELSE \E target \in unvisited :
                       \/ /\ pageUrl' = [pageUrl EXCEPT ![s] = target]
                          /\ visitedUrls' = [visitedUrls EXCEPT ![s] = SetAdd(@, target)]
                          /\ rVisited' = [rVisited EXCEPT ![s] = RecordPageVisit(@, target)]
                          /\ totalActions' = [totalActions EXCEPT ![s] = @ + 1]
                          /\ pc' = [pc EXCEPT ![s] = "think"]
                          /\ EndCycle(s)
                          /\ UNCHANGED <<session, loopExit>>
                       \/ /\ LoopReturn(s, "navfail")
                          /\ UNCHANGED <<pageVars, visitedUrls, rVisited, totalActions>>
               /\ UNCHANGED <<fatalFrom, snap>>
            \* page.evaluate of collectInternalLinks rejects, outside any try
            \/ /\ Throw(s, "links")
               /\ UNCHANGED <<session, pageVars, visitedUrls, rVisited, totalActions>>
       ELSE /\ pc' = [pc EXCEPT ![s] = "think"]
            /\ EndCycle(s)
            /\ UNCHANGED <<session, loopExit, pageVars, visitedUrls, rVisited, totalActions,
                           fatalFrom, snap>>
    /\ UNCHANGED <<poolVars, config, obs, mainPc, attempt, budgetVars, clock, currentProxy,
                   open, launched, loopCtx, proxyUsed, report, reports, calls>>

AfterDelayFrozen(now) == now
\* Date.now() after a delay that started at now
AfterDelay(now) == now + 1

\* await thinkingPause(): at least one tick passes
ThinkingPause(s) ==
    /\ pc[s] = "think"
    /\ clock' = [clock EXCEPT ![s] = AfterDelay(@)]
    /\ pc' = [pc EXCEPT ![s] = "loopHead"]
    /\ UNCHANGED <<poolVars, config, obs, mainPc, attempt, budgetVars, visitedUrls, currentProxy,
                   handleVars, loopCtx, pageVars, cycleVars, reporterVars,
                   fatalFrom, snap, loopExit, calls>>

\* ------------------------------------------------- recovery and shutdown
\* closeBrowser(this.session); this.session = null   (never throws)
Cleanup(s) ==
    /\ open' = [open EXCEPT ![s] = @ \ {session[s]}]
    /\ session' = [session EXCEPT ![s] = Nothing]

RecoveryGuardAlways(s) == TRUE
RecoveryGuardNonEmpty(s) == currentProxy[s] # Nothing /\ GetCount > 0
\* if (this.currentProxy && this.proxyManager.getCount() > 1)
RecoveryGuard(s) == currentProxy[s] # Nothing /\ GetCount > 1

\* catch (error) in run(): the recovery guard and markDead
Catch(s) ==
    /\ pc[s] = "catch"
    /\ IF RecoveryGuard(s)
       THEN /\ MarkDead(s, currentProxy[s])
            /\ calls' = [calls EXCEPT ![s].markDead = @ + 1]
            /\ pc' = [pc EXCEPT ![s] = "cleanup"]
       ELSE /\ pc' = [pc EXCEPT ![s] = "finally"]
            /\ UNCHANGED <<poolVars, calls>>
    /\ UNCHANGED <<config, obs, mainPc, attempt, budgetVars, clock, visitedUrls, currentProxy,
                   handleVars, loopCtx, pageVars, cycleVars, reporterVars, fatalFrom, snap, loopExit>>

\* await this.cleanup() in the catch block
CleanupBeforeRecovery(s) ==
    /\ pc[s] = "cleanup"
    /\ Cleanup(s)
    /\ pc' = [pc EXCEPT ![s] = "recover"]
    /\ UNCHANGED <<poolVars, config, obs, mainPc, attempt, budgetVars, clock, visitedUrls, currentProxy,
                   launched, loopCtx, pageVars, cycleVars, reporterVars, fatalFrom, snap, loopExit,
                   calls>>

\* recoverWithNewProxy: getNext, return null when there is none, setProxy
RecoverWithNewProxy(s) ==
    /\ pc[s] = "recover"
    /\ GetNext(s)
    /\ calls' = [calls EXCEPT ![s].getNext = @ + 1]
    /\ attempt' = [attempt EXCEPT ![s] = 1]
    /\ IF GetNextResult = Nothing
       THEN /\ pc' = [pc EXCEPT ![s] = "finally"]
            /\ UNCHANGED proxyUsed
       ELSE /\ pc' = [pc EXCEPT ![s] = "recLaunch"]
            /\ proxyUsed' = [proxyUsed EXCEPT ![s] = Server(GetNextResult)]
    /\ UNCHANGED <<config, obs, mainPc, budgetVars, clock, visitedUrls, currentProxy, handleVars,
                   loopCtx, pageVars, cycleVars, rVisited, totalActions, report, reports,
                   fatalFrom, snap, loopExit>>

\* const session = await launchBrowser(config, logger, newProxy) in recovery
RecoverLaunch(s) ==
    /\ pc[s] = "recLaunch"
    /\ \/ /\ launched' = [launched EXCEPT ![s] = @ + 1]
          /\ open' = [open EXCEPT ![s] = @ \cup {launched[s] + 1}]
          /\ pageUrl' = [pageUrl EXCEPT ![s] = Blank]
          /\ pc' = [pc EXCEPT ![s] = "recGoto"]
          /\ UNCHANGED <<fatalFrom, snap, loopExit, cycleVars>>
       \/ /\ Throw(s, "launch")
          /\ UNCHANGED <<open, launched, pageVars>>
    /\ UNCHANGED <<poolVars, config, obs, mainPc, attempt, budgetVars, clock, visitedUrls, currentProxy,
                   session, loopCtx, reporterVars, calls>>

RecoveryCtxFresh(s) == [visitedUrls |-> <<>>, targetPages |-> targetPages[s],
                        targetDuration |-> targetDuration[s], startTime |-> clock[s]]
\* the RecoveryContext run() passes, from which recoverWithNewProxy builds
\* the LoopContext of the resumed loop
RecoveryCtx(s) == [visitedUrls |-> visitedUrls[s], targetPages |-> targetPages[s],
                   targetDuration |-> targetDuration[s], startTime |-> startTime[s]]

\* session.page.goto(config.url), humanDelay, then explorationLoop(loopCtx)
RecoverGoto(s) ==
    /\ pc[s] = "recGoto"
    /\ \/ /\ pageUrl' = [pageUrl EXCEPT ![s] = Target]
          /\ visitedUrls' = [visitedUrls EXCEPT ![s] = RecoveryCtx(s).visitedUrls]
          /\ loopCtx' = [loopCtx EXCEPT ![s] =
                            [targetPages |-> RecoveryCtx(s).targetPages,
                             targetDuration |-> RecoveryCtx(s).targetDuration,
                             startTime |-> RecoveryCtx(s).startTime]]
          /\ calls' = [calls EXCEPT ![s].loops = @ + 1]
          /\ pc' = [pc EXCEPT ![s] = "loopHead"]
          /\ UNCHANGED <<fatalFrom, snap, loopExit, cycleVars>>
       \/ /\ Throw(s, "goto")
          /\ UNCHANGED <<pageVars, visitedUrls, loopCtx, calls>>
    /\ UNCHANGED <<poolVars, config, obs, mainPc, attempt, budgetVars, clock, currentProxy, handleVars,
                   reporterVars>>

\* reporter.generateReport()
GenerateReport(s) == [pagesVisited |-> Len(rVisited[s]), visitedUrls |-> rVisited[s],
                      totalActions |-> totalActions[s], proxyUsed |-> proxyUsed[s]]

\* finally: await this.cleanup(); this.reporter.generateReport(); the way
\* the loop ended is observed up to here
Finally(s) ==
    /\ pc[s] = "finally"
    /\ Cleanup(s)
    /\ report' = [report EXCEPT ![s] = GenerateReport(s)]
    /\ reports' = [reports EXCEPT ![s] = @ + 1]
    /\ pc' = [pc EXCEPT ![s] = "done"]
    /\ loopExit' = [loopExit EXCEPT ![s] = NoExit]
    /\ UNCHANGED <<poolVars, config, obs, mainPc, attempt, budgetVars, clock, visitedUrls, currentProxy,
                   launched, loopCtx, pageVars, cycleVars, rVisited, totalActions,
                   proxyUsed, fatalFrom, snap, calls>>

\* ------------------------------------------- ProxyManager used on its own
\* a session asks for a proxy
ApiGetNext(s) ==
    /\ mainPc = "launch"
    /\ GetNext(s)
    /\ currentProxy' = [currentProxy EXCEPT ![s] = GetNextResult]
    /\ UNCHANGED <<config, obs, mainPc, pc, attempt, budgetVars, clock, visitedUrls, handleVars,
                   loopCtx, pageVars, cycleVars, reporterVars, fatalFrom, snap, loopExit, calls>>

\* a session reports the proxy it holds as dead
ApiMarkDead(s) ==
    /\ mainPc = "launch"
    /\ currentProxy[s] # Nothing
    /\ MarkDead(s, currentProxy[s])
    /\ UNCHANGED <<config, obs, mainPc, sessVars>>

\* ------------------------------------------ components exercised alone
\* each component is called on its own, once, from the constructed state
\* everything but obs
modelVars == <<poolVars, config, mainPc, sessVars>>

\* the record performRandomAction appends: reporter.recordAction(KIND, detail,
\* currentUrl), the kind standing for its upper-case name
ActionRecord(cur, kind, res) ==
    IF Records(kind, res) THEN <<[action |-> kind, page |-> cur]>> ELSE <<>>

\* the URL the type and click branches newly insert into the visited set:
\* if (page.url() !== currentUrl) ctx.visitedUrls.add(page.url())
Inserted(cur, kind, res, land, visited) ==
    IF kind \in {"type", "click"} /\ res = "done" /\ land # cur /\ land \notin Range(visited)
    THEN <<land>> ELSE <<>>

\* sequences of at most n members of S
SeqsUpTo(S, n) == UNION {[1 .. k -> S] : k \in 0 .. n}

\* ------------------------------------------------------ cookie consent
\* what a locator finds: nothing visible, an element whose click succeeds,
\* or a visible element whose click throws (covered, detached, timed out)
Elements == {"absent", "ok", "stuck"}

\* the outcome of a tier: whether it returned true, the clicks that
\* succeeded and the clicks that were tried
Tier(ok, good, tries) == [ok |-> ok, good |-> good, tries |-> tries]
Tried(r) == [r EXCEPT !.tries = @ + 1]
\* a || b of two tiers tried one after the other
OrElse(a, b) == IF a.ok THEN a ELSE Tier(b.ok, a.good + b.good, a.tries + b.tries)

RECURSIVE TryElementsAll(_, _)
TryElementsAll(els, i) ==
    IF i > Len(els) THEN Tier(FALSE, 0, 0)
    ELSE LET r == TryElementsAll(els, i + 1)
         IN  IF els[i] = "ok" THEN Tier(TRUE, r.good + 1, r.tries + 1)
             ELSE IF els[i] = "stuck" THEN Tried(r) ELSE r

RECURSIVE TryElements(_, _)
\* tryFrameworkSelectors / tryFrameworkSelectorsInFrame / tryTextInFrame:
\* the first visible element whose click succeeds ends the loop with true;
\* a click that throws is caught and the next selector is tried
TryElements(els, i) ==
    IF i > Len(els) THEN Tier(FALSE, 0, 0)
    ELSE IF els[i] = "ok" THEN Tier(TRUE, 1, 1)
    ELSE IF els[i] = "stuck" THEN Tried(TryElements(els, i + 1))
    ELSE TryElements(els, i + 1)

RECURSIVE TryTexts(_, _)
\* tryTextBasedSearch, the loop over the patterns: the button role first,
\* then the link role; a click that throws skips to the next pattern
TryTexts(texts, i) ==
    IF i > Len(texts) THEN Tier(FALSE, 0, 0)
    ELSE IF texts[i].button = "ok" THEN Tier(TRUE, 1, 1)
    ELSE IF texts[i].button = "stuck" THEN Tried(TryTexts(texts, i + 1))
    ELSE IF texts[i].link = "ok" THEN Tier(TRUE, 1, 1)
    ELSE IF texts[i].link = "stuck" THEN Tried(TryTexts(texts, i + 1))
    ELSE TryTexts(texts, i + 1)

\* tryTextBasedSearch, the fallback: a button of a visible cookie container
TryContainer(c) ==
    IF c = "ok" THEN Tier(TRUE, 1, 1)
    ELSE IF c = "stuck" THEN Tier(FALSE, 0, 1)
    ELSE Tier(FALSE, 0, 0)

TryTextBasedSearch(page) == OrElse(TryTexts(page.texts, 1), TryContainer(page.container))

RECURSIVE TryFrames(_, _)
\* tryIframeSearch, the loop over page.frames(): the main frame and the
\* frames whose URL holds no consent pattern are skipped
TryFrames(frames, i) ==
    IF i > Len(frames) THEN Tier(FALSE, 0, 0)
    ELSE IF frames[i].main \/ ~frames[i].consent THEN TryFrames(frames, i + 1)
    ELSE OrElse(OrElse(TryElements(frames[i].selectors, 1), TryElements(frames[i].texts, 1)),
                TryFrames(frames, i + 1))

\* tryIframeSearch: a throw of page.frames() or frame.url() is caught
TryIframeSearch(page) ==
    IF page.framesThrow THEN Tier(FALSE, 0, 0) ELSE TryFrames(page.frames, 1)

\* handleCookieConsent(page, logger): the three layers in order; the value
\* returned, the clicks that succeeded, the clicks tried and whether it threw
HandleCookieConsent(page) ==
    LET r == OrElse(OrElse(TryElements(page.selectors, 1), TryTextBasedSearch(page)),
                    TryIframeSearch(page))
    IN  [ret |-> r.ok, good |-> r.good, tries |-> r.tries, threw |-> FALSE]

\* the main frame of a page, and a frame embedded in it
MainFrame == [main |-> TRUE, consent |-> FALSE, selectors |-> <<>>, texts |-> <<>>]
ChildFrames == [main : {FALSE}, consent : BOOLEAN,
                selectors : [1 .. 1 -> Elements], texts : [1 .. 1 -> Elements]]

\* the pages the handler is tried on: two framework selectors, one accept
\* text, a cookie container and at most one embedded frame
CookiePages ==
    [selectors : [1 .. 2 -> Elements],
     texts : [1 .. 1 -> [button : Elements, link : Elements]],
     container : Elements,
     framesThrow : BOOLEAN,
     frames : {<<MainFrame>>} \cup {<<MainFrame, f>> : f \in ChildFrames}]

\* handleCookieConsent(page, logger) on its own
CookieCall ==
    /\ obs = NoObs
    /\ \E page \in CookiePages :
          obs' = [fn |-> "cookies", page |-> page, out |-> HandleCookieConsent(page)]
    /\ UNCHANGED modelVars

\* a page cycle begins on an http page: const currentUrl = page.url(), and
\* actionsTarget = randomInt(minActionsPerPage, maxActionsPerPage) is drawn;
\* before that handleCookieConsent has run once and its COOKIE record, if
\* any, is appended; the session may be timed out by the time the action
\* loop is reached
CycleStart ==
    /\ obs = NoObs
    /\ \E u \in {v \in Urls : IsHttp(v)} : \E target \in RandomInt(1, CycleActions) :
       \E timedOut \in BOOLEAN : \E handled \in {HandleCookieConsent(p).ret : p \in CookiePages} :
          obs' = [fn |-> "cycle", cur |-> u, url |-> u, n |-> 0, roll |-> 0,
                  kind |-> "none", res |-> "none", before |-> u, flag |-> FALSE,
                  target |-> target, timedOut |-> timedOut,
                  visited |-> <<u>>, added |-> <<>>, log |-> <<>>,
                  consent |-> 1, handled |-> handled, cookieLog |-> CookieRecord(u, handled)]
    /\ UNCHANGED modelVars

\* one iteration of the action loop of that cycle: performRandomAction(ctx,
\* currentUrl), actionsPerformed++, break when it navigated; the duration
\* may run out while the action runs
CycleAction ==
    /\ obs.fn = "cycle"
    /\ ActionLoopCond(obs.n, obs.target, obs.timedOut)
    /\ ~obs.flag
    /\ \E roll \in Rolls : \E res \in Outcomes(KindOf(roll)) \ {"throw"} :
       \E land \in LandsFrom(obs.url, KindOf(roll), res) : \E late \in BOOLEAN :
          obs' = [fn |-> "cycle", cur |-> obs.cur, url |-> land, n |-> obs.n + 1,
                  roll |-> roll, kind |-> KindOf(roll), res |-> res, before |-> obs.url,
                  flag |-> Navigated(obs.cur, obs.url, KindOf(roll), res, land),
                  target |-> obs.target, timedOut |-> late,
                  visited |-> obs.visited \o Inserted(obs.cur, KindOf(roll), res, land, obs.visited),
                  added |-> Inserted(obs.cur, KindOf(roll), res, land, obs.visited),
                  log |-> ActionRecord(obs.cur, KindOf(roll), res),
                  consent |-> obs.consent, handled |-> obs.handled, cookieLog |-> obs.cookieLog]
    /\ UNCHANGED modelVars

\* ------------------------------------------------------ link collection
\* a.href of an anchor as the browser resolves it. new URL(href) gives an
\* http URL its own origin, pathname and search; a blob: URL the origin of
\* the URL it wraps and that URL as its pathname; a mailto: URL the origin
\* "null"; it throws for a string that is no URL
Hrefs ==
    {[kind |-> "http", origin |-> "http://site", pathname |-> "/a", search |-> "", hash |-> ""],
     [kind |-> "http", origin |-> "http://site", pathname |-> "/a", search |-> "", hash |-> "#top"],
     [kind |-> "http", origin |-> "http://site", pathname |-> "/a", search |-> "?p=2", hash |-> ""],
     [kind |-> "http", origin |-> "http://site", pathname |-> "/", search |-> "", hash |-> "#top"],
     [kind |-> "http", origin |-> "http://other", pathname |-> "/", search |-> "", hash |-> ""],
     [kind |-> "blob", origin |-> "http://site", pathname |-> "http://site/uuid", search |-> "", hash |-> ""],
     [kind |-> "mailto", origin |-> "null", pathname |-> "x@site", search |-> "", hash |-> ""],
     [kind |-> "invalid", origin |-> "null", pathname |-> "", search |-> "", hash |-> ""]}

\* the callback of anchors.map: null for an href that is no URL or has
\* another origin, else `${url.origin}${url.pathname}${url.search}`, kept
\* here as the three parts of the string
MapAnchor(href, origin) ==
    IF href.kind = "invalid" THEN <<>>
    ELSE IF href.origin # origin THEN <<>>
    ELSE <<[origin |-> href.origin, pathname |-> href.pathname, search |-> href.search]>>

RECURSIVE MapAnchors(_, _)
\* anchors.map(...).filter((href) => href !== null)
MapAnchors(anchors, origin) ==
    IF anchors = <<>> THEN <<>>
    ELSE MapAnchor(Head(anchors), origin) \o MapAnchors(Tail(anchors), origin)

RECURSIVE Dedup(_, _)
\* [...new Set(links)]
Dedup(links, kept) ==
    IF links = <<>> THEN kept ELSE Dedup(Tail(links), SetAdd(kept, Head(links)))

\* collectInternalLinks(page) of a page at url whose anchors are given
CollectInternalLinks(url, anchors) ==
    IF ~IsHttp(url) THEN <<>>
    ELSE Dedup(MapAnchors(anchors, Origin(url)), <<>>)

\* new URL(link).origin of a returned string: the string starts with an
\* origin, and what follows belongs to the host unless it starts with "/"
LinkOrigin(link) ==
    IF link.pathname \in {"/", "/a"} THEN link.origin ELSE "http://sitehttp"

\* the strings a visited set holds when a fallback navigation is tried alone
SiteRoot == [origin |-> "http://site", pathname |-> "/", search |-> ""]
SitePageA == [origin |-> "http://site", pathname |-> "/a", search |-> ""]
VisitedSets == {<<SiteRoot>>, <<SiteRoot, SitePageA>>}

\* navigateToRandomLink(page, visitedUrls, logger) followed by the visitedUrls.add
\* of the loop: the link page.goto was called with (none when nothing was
\* unvisited), the value returned (none for null) and the visited set after
NavigateToRandomLink(url, anchors, visited, js, gotoOk) ==
    LET allLinks == CollectInternalLinks(url, anchors)
        unvisited == SelectSeq(allLinks, LAMBDA l : l \notin Range(visited))
        shuffled == Shuffle(unvisited, js)
    IN  IF Len(unvisited) = 0
        THEN [target |-> <<>>, nextUrl |-> <<>>, visited |-> visited]
        ELSE IF gotoOk
        THEN [target |-> <<shuffled[1]>>, nextUrl |-> <<shuffled[1]>>,
              visited |-> SetAdd(visited, shuffled[1])]
        ELSE [target |-> <<shuffled[1]>>, nextUrl |-> <<>>, visited |-> visited]

\* the number of unvisited links navigateToRandomLink would shuffle
UnvisitedCount(url, anchors, visited) ==
    Len(SelectSeq(CollectInternalLinks(url, anchors), LAMBDA l : l \notin Range(visited)))

\* the fallback navigation of a page cycle on the target page, on its own
NavigateCall ==
    /\ obs = NoObs
    /\ \E anchors \in SeqsUpTo(Hrefs, MaxAnchors) : \E visited \in VisitedSets :
       \E js \in ShuffleDraws(UnvisitedCount(Target, anchors, visited)) : \E gotoOk \in BOOLEAN :
          obs' = [fn |-> "navigate", url |-> Target, anchors |-> anchors, visited |-> visited,
                  out |-> NavigateToRandomLink(Target, anchors, visited, js, gotoOk)]
    /\ UNCHANGED modelVars

\* collectInternalLinks(page), twice on the same page
CollectCall ==
    /\ obs = NoObs
    /\ \E url \in {Target, Blank} : \E anchors \in SeqsUpTo(Hrefs, MaxAnchors) :
          obs' = [fn |-> "links", url |-> url, anchors |-> anchors,
                  first |-> CollectInternalLinks(url, anchors),
                  second |-> CollectInternalLinks(url, anchors)]
    /\ UNCHANGED modelVars

\* humanDelay(minMs, maxMs) and simulateReading's duration under one z0
DelayCall ==
    /\ obs = NoObs
    /\ \E r \in DelayRanges : \E z0 \in Z0s :
          obs' = [fn |-> "delay", min |-> r[1], max |-> r[2], z0 |-> z0,
                  delay |-> HumanDelay(r[1], r[2], z0), reading |-> ReadingDuration(z0)]
    /\ UNCHANGED modelVars

\* randomInt(min, max) under one draw
RandomIntCall ==
    /\ obs = NoObs
    /\ \E min \in -1 .. MaxInt : \E max \in min .. MaxInt : \E roll \in Rolls :
          obs' = [fn |-> "randomInt", min |-> min, max |-> max, roll |-> roll,
                  v |-> RandomIntOf(min, max, roll)]
    /\ UNCHANGED modelVars

\* shuffle(arr) under every sequence of draws
ShuffleCall ==
    /\ obs = NoObs
    /\ \E arr \in SeqsUpTo(1 .. 3, MaxShuffle) : \E js \in ShuffleDraws(Len(arr)) :
          obs' = [fn |-> "shuffle", arr |-> arr, js |-> js, result |-> Shuffle(arr, js)]
    /\ UNCHANGED modelVars

\* the proxies files tried
Files ==
    {[exists |-> e, lines |-> l] :
        e \in BOOLEAN,
        l \in SeqsUpTo({BlankLine, CommentLine, JunkLine} \cup {EntryLine(i) : i \in 1 .. 2}, MaxLines)}

\* new ProxyManager(logger).initialize(filePath)
InitializeCall ==
    /\ obs = NoObs
    /\ \E file \in Files : \E ok \in ProbeOutcomes(file) :
          obs' = [fn |-> "initialize", file |-> file, ok |-> ok,
                  out |-> InitializeOutcome(file, ok)]
    /\ UNCHANGED modelVars

\* filterWorkingProxies(candidates, logger), every probe outcome tried
FilterCall ==
    /\ obs = NoObs
    /\ \E cands \in SeqsUpTo(1 .. NumProxies, MaxCands) : \E ok \in SUBSET (1 .. Len(cands)) :
          obs' = [fn |-> "filter", cands |-> cands, ok |-> ok,
                  working |-> FilterWorkingProxies(cands, ok, Concurrency)]
    /\ UNCHANGED modelVars

\* the pools initialize can leave from a file of MaxCands entry lines
Pools == {FilterWorkingProxies([i \in 1 .. MaxCands |-> i], ok, Concurrency) :
             ok \in SUBSET (1 .. MaxCands)}

\* the values this.currentIndex can have over a pool of n entries
Cursors(n) == IF n = 0 THEN {0} ELSE 0 .. (n - 1)

\* manager.markDead(e) on a pool and a cursor, e an entry of the file
MarkDeadCall ==
    /\ obs = NoObs
    /\ \E ps \in Pools : \E idx \in Cursors(Len(ps)) : \E e \in 1 .. MaxCands :
          obs' = [fn |-> "markDead", pool |-> ps, idx |-> idx, e |-> e,
                  out |-> MarkDeadOutcome(ps, idx, e)]
    /\ UNCHANGED modelVars

PromiseAny(pending) == TRUE
\* await Promise.all(...): resumes when none of its promises is pending
PromiseAll(pending) == pending = {}

\* filterWorkingProxies(candidates, logger) step by step: the chunks are
\* built and no probe has started
FilterStart ==
    /\ obs = NoObs
    /\ \E n \in 0 .. MaxCands :
          obs' = [fn |-> "probing", cands |-> LoadProxies(ProxyFile(n)).entries,
                  chunks |-> Chunks(LoadProxies(ProxyFile(n)).entries, 0, Concurrency),
                  k |-> 0, base |-> 0, inflight |-> {}, started |-> {}, ok |-> {},
                  joined |-> TRUE, working |-> <<>>, returned |-> FALSE]
    /\ UNCHANGED modelVars

\* for (const chunk of chunks): chunk.map(async ...) starts the probe of
\* every member of the next chunk; the positions of the candidates stand
\* for their probes
ChunkStart ==
    /\ obs.fn = "probing"
    /\ obs.joined /\ ~obs.returned
    /\ obs.k < Len(obs.chunks)
    /\ LET base == IF obs.k = 0 THEN 0 ELSE obs.base + Len(obs.chunks[obs.k])
           probes == (base + 1) .. (base + Len(obs.chunks[obs.k + 1]))
       IN  obs' = [obs EXCEPT !.k = @ + 1, !.base = base, !.inflight = @ \cup probes,
                              !.started = @ \cup probes, !.joined = FALSE]
    /\ UNCHANGED modelVars

\* checkProxy of one candidate resolves, true or false (it never rejects)
ProbeSettle ==
    /\ obs.fn = "probing"
    /\ \E p \in obs.inflight : \E r \in BOOLEAN :
          obs' = [obs EXCEPT !.inflight = @ \ {p}, !.ok = IF r THEN @ \cup {p} ELSE @]
    /\ UNCHANGED modelVars

\* Promise.all of the chunk resolves and its passing members are pushed
ChunkJoin ==
    /\ obs.fn = "probing"
    /\ ~obs.joined
    /\ PromiseAll(obs.inflight \cap ((obs.base + 1) .. (obs.base + Len(obs.chunks[obs.k]))))
    /\ obs' = [obs EXCEPT !.joined = TRUE,
                          !.working = PushWorking(@, ChunkResults(obs.chunks[obs.k], obs.base, obs.ok))]
    /\ UNCHANGED modelVars

\* return working
FilterReturn ==
    /\ obs.fn = "probing"
    /\ obs.joined /\ ~obs.returned
    /\ obs.k = Len(obs.chunks)
    /\ obs' = [obs EXCEPT !.returned = TRUE]
    /\ UNCHANGED modelVars

\* a URL that is null
NullUrl == ""

BackGuardNoHistory(url, historyLength) == ~IsHttp(url)
\* humanBack: the two early returns, for a non-http page and for
\* window.history.length <= 1
BackGuard(url, historyLength) == ~IsHttp(url) \/ historyLength <= 1

\* page.goBack / page.goForward on the session history hist at entry pos:
\* a move by one entry when there is one, and the call may throw (timeout)
GoBack(hist, pos, ok) == IF ok /\ pos > 1 THEN pos - 1 ELSE pos
GoForward(hist, pos, ok) == IF ok /\ pos < Len(hist) THEN pos + 1 ELSE pos

\* humanBack(page, logger) on a page showing entry pos of hist: the URL or
\* null it returns, the navigations it issued and the entry the page shows
HumanBack(hist, pos, backOk, fwdOk) ==
    LET currentUrlB == hist[pos]
        after == GoBack(hist, pos, backOk)
        afterUrl == hist[after]
    IN  IF BackGuard(currentUrlB, Len(hist))
        THEN [ret |-> NullUrl, issued |-> <<>>, pos |-> pos]
        ELSE IF ~backOk
        THEN [ret |-> NullUrl, issued |-> <<"goBack">>, pos |-> pos]
        ELSE IF ~IsHttp(afterUrl)
        THEN [ret |-> NullUrl, issued |-> <<"goBack", "goForward">>,
              pos |-> GoForward(hist, after, fwdOk)]
        ELSE IF afterUrl # currentUrlB
        THEN [ret |-> afterUrl, issued |-> <<"goBack">>, pos |-> after]
        ELSE [ret |-> NullUrl, issued |-> <<"goBack">>, pos |-> after]

\* the back branch of performRandomAction on such a page, in a page cycle
\* whose currentUrl is cur
BackCall ==
    /\ obs = NoObs
    /\ \E n \in 1 .. MaxHistory : \E hist \in [1 .. n -> Urls] : \E pos \in 1 .. n :
       \E backOk, fwdOk \in BOOLEAN : \E cur \in {hist[pos], Target} :
          LET out == HumanBack(hist, pos, backOk, fwdOk)
              res == IF out.ret # NullUrl THEN "done" ELSE "none"
              land == hist[out.pos]
          IN  obs' = [fn |-> "back", hist |-> hist, pos |-> pos, cur |-> cur,
                      backOk |-> backOk, fwdOk |-> fwdOk, out |-> out,
                      log |-> ActionRecord(cur, "back", res),
                      flag |-> Navigated(cur, hist[pos], "back", res, land),
                      added |-> Inserted(cur, "back", res, land, <<cur>>)]
    /\ UNCHANGED modelVars

\* getNext() on the list ps with the cursor at idx: the entry it returns
GetNextOf(ps, idx) == IF Len(ps) = 0 THEN Nothing ELSE ps[idx + 1]

RECURSIVE CursorAfter(_, _)
\* the cursor after k getNext() calls on a pool fresh from initialize
CursorAfter(ps, k) == IF k = 0 THEN 0 ELSE NextIndex(CursorAfter(ps, k - 1), Len(ps))

\* k getNext() calls on a fresh pool, then markDead(e), then getNext()
EvictCall ==
    /\ obs = NoObs
    /\ \E ps \in Pools \ {<<>>} : \E k \in 1 .. Len(ps) : \E e \in 1 .. MaxCands :
          LET idx == CursorAfter(ps, k)
              out == MarkDeadOutcome(ps, idx, e)
          IN  obs' = [fn |-> "evict", pool |-> ps, k |-> k, idx |-> idx,
                      last |-> GetNextOf(ps, CursorAfter(ps, k - 1)), e |-> e,
                      out |-> out, next |-> GetNextOf(out.pool, out.idx)]
    /\ UNCHANGED modelVars

\* -------------------------------------------------------- specifications
\* the configuration of a run of one instance; proxiesFile stands for the
\* number of lines of the file it names
SingleConfig == [url |-> DefaultUrl, instances |-> 1, proxiesFile |-> ProxyFile(NumProxies),
                 minPages |-> 1, maxPages |-> MaxPages,
                 minDuration |-> 1, maxDuration |-> MaxDuration,
                 minActionsPerPage |-> 1, maxActionsPerPage |-> MaxActionsPerPage]

\* the configuration of a run of several instances: a proxies file with one
\* proxy per instance, and the smallest budgets under which a session can
\* run a second page cycle
MultiConfig == [url |-> DefaultUrl, instances |-> Instances, proxiesFile |-> ProxyFile(Instances),
                minPages |-> 1, maxPages |-> 2,
                minDuration |-> 1, maxDuration |-> 2,
                minActionsPerPage |-> 1, maxActionsPerPage |-> 1]

\* the state main starts in: nothing loaded, the fields of the ProxyManager
\* and of every Explorer as their constructors leave them
Constructed ==
    /\ proxies = <<>>
    /\ currentIndex = 0
    /\ dead = {}
    /\ lastCall = [op |-> "none", ret |-> Nothing, size |-> 0, idx |-> 0,
                   at |-> Nothing]
    /\ lastEvict = [addr |-> Nothing, atCursor |-> FALSE]
    /\ served = <<>>
    /\ mainPc = "start"
    /\ obs = NoObs
    /\ pc = [s \in Sessions |-> "new"]
    /\ attempt = [s \in Sessions |-> 0]
    /\ targetPages = [s \in Sessions |-> 0]
    /\ targetDuration = [s \in Sessions |-> 0]
    /\ startTime = [s \in Sessions |-> 0]
    /\ clock = [s \in Sessions |-> 0]
    /\ visitedUrls = [s \in Sessions |-> <<>>]
    /\ currentProxy = [s \in Sessions |-> Nothing]
    /\ session = [s \in Sessions |-> Nothing]
    /\ open = [s \in Sessions |-> {}]
    /\ launched = [s \in Sessions |-> 0]
    /\ loopCtx = [s \in Sessions |-> NoCtx]
    /\ pageUrl = [s \in Sessions |-> ""]
    /\ currentUrl = [s \in Sessions |-> ""]
    /\ actionsTarget = [s \in Sessions |-> 0]
    /\ actionsPerformed = [s \in Sessions |-> 0]
    /\ rVisited = [s \in Sessions |-> <<>>]
    /\ totalActions = [s \in Sessions |-> 0]
    /\ proxyUsed = [s \in Sessions |-> Nothing]
    /\ report = [s \in Sessions |-> NoReport]
    /\ reports = [s \in Sessions |-> 0]
    /\ fatalFrom = [s \in Sessions |-> <<>>]
    /\ snap = [s \in Sessions |-> NoSnap]
    /\ loopExit = [s \in Sessions |-> NoExit]
    /\ calls = [s \in Sessions |-> [markDead |-> 0, getNext |-> 0, loops |-> 0]]

Init == config = SingleConfig /\ Constructed

InitMulti == config = MultiConfig /\ Constructed

\* the ProxyManager under arbitrary getNext / markDead calls of the sessions
NextPool ==
    \/ LoadConfig
    \/ Initialize
    \/ \E s \in Sessions : ApiGetNext(s)
    \/ \E s \in Sessions : ApiMarkDead(s)

SpecPool == Init /\ [][NextPool]_vars

\* the whole run: main, the sessions and the shared ProxyManager
Next ==
    \/ LoadConfig
    \/ Initialize
    \/ Dispatch
    \/ Complete
    \/ \E s \in Sessions : Run(s)
    \/ \E s \in Sessions : LaunchBrowser(s)
    \/ \E s \in Sessions : InitialGoto(s)
    \/ \E s \in Sessions : LoopHead(s)
    \/ \E s \in Sessions : GuardGoto(s)
    \/ \E s \in Sessions : CookieConsent(s)
    \/ \E s \in Sessions : PerformRandomAction(s)
    \/ \E s \in Sessions : FallbackNavigate(s)
    \/ \E s \in Sessions : ThinkingPause(s)
    \/ \E s \in Sessions : Catch(s)
    \/ \E s \in Sessions : CleanupBeforeRecovery(s)
    \/ \E s \in Sessions : RecoverWithNewProxy(s)
    \/ \E s \in Sessions : RecoverLaunch(s)
    \/ \E s \in Sessions : RecoverGoto(s)
    \/ \E s \in Sessions : Finally(s)

\* the components exercised on their own, on inputs drawn from small sets
NextUnits ==
    \/ CycleStart
    \/ CycleAction
    \/ InitializeCall
    \/ FilterCall
    \/ CookieCall
    \/ CollectCall
    \/ NavigateCall
    \/ DelayCall
    \/ RandomIntCall
    \/ ShuffleCall
    \/ MarkDeadCall
    \/ FilterStart
    \/ ChunkStart
    \/ ProbeSettle
    \/ ChunkJoin
    \/ FilterReturn
    \/ BackCall
    \/ EvictCall

SpecUnits == Init /\ [][NextUnits]_vars

\* a run of one instance
Spec == Init /\ [][Next]_vars

\* a run of several concurrent instances
SpecMulti == InitMulti /\ [][Next]_vars

\* the steps of main, and the steps of session s
MainStep == LoadConfig \/ Initialize \/ Dispatch \/ Complete
SessionStep(s) ==
    \/ Run(s) \/ LaunchBrowser(s) \/ InitialGoto(s) \/ LoopHead(s) \/ GuardGoto(s)
    \/ CookieConsent(s) \/ PerformRandomAction(s) \/ FallbackNavigate(s)
    \/ ThinkingPause(s) \/ Catch(s) \/ CleanupBeforeRecovery(s)
    \/ RecoverWithNewProxy(s) \/ RecoverLaunch(s) \/ RecoverGoto(s) \/ Finally(s)

\* a run of one instance in which every awaited call returns or fails: main
\* and every session go on whenever they have a step to take
SpecLive == Init /\ [][Next]_vars /\ WF_vars(MainStep) /\ \A s \in Sessions : WF_vars(SessionStep(s))

\* ================================================================ claims
\* the entries returned by the latest n getNext calls
LastServed(n) == {served[i] : i \in (Len(served) - n + 1) .. Len(served)}

\* C1: getNext() returns nothing exactly when the pool is empty; otherwise it
\* returns the entry at the cursor and advances the cursor by one modulo the
\* pool size, so that K consecutive calls on a pool of K entries (no markDead
\* in between) return every entry exactly once and the (K+1)-th call returns
\* the same entry as the first.
C1_RoundRobin ==
    /\ lastCall.op = "getNext" =>
          /\ (lastCall.ret = Nothing) <=> (lastCall.size = 0)
          /\ lastCall.size > 0 =>
                /\ lastCall.ret = lastCall.at
                /\ currentIndex = (lastCall.idx + 1) % lastCall.size
    /\ LET K == Len(proxies)
           n == Len(served)
       IN  K >= 1 =>
             /\ n >= K => LastServed(K) = Range(proxies)
             /\ n >= K + 1 => served[n] = served[n - K]

\* K + 1 consecutive calls were made on a pool of K >= 2 entries
C1_Witness ==
    /\ Len(proxies) >= 2
    /\ Len(served) = Len(proxies) + 1
    /\ lastCall.op = "getNext"

\* C2: once markDead(e) was called, no later getNext() returns an entry with
\* e's address, and getNext() still returns an entry of the remaining pool
\* whenever the pool is non-empty, also when e was the entry at the cursor.
C2_NoDeadEntryReturned ==
    /\ \A i \in DOMAIN proxies : Server(proxies[i]) \notin dead
    /\ \A i \in DOMAIN served : served[i] # Nothing => Server(served[i]) \notin dead
    /\ lastCall.op = "getNext" =>
          /\ lastCall.ret # Nothing => Server(lastCall.ret) \notin dead
          /\ Len(proxies) > 0 => lastCall.ret \in Range(proxies)

\* the pool {A, B}: A was at the cursor when it was marked dead, and the two
\* calls made since then both returned B
C2_Witness ==
    /\ dead = {Server(1)}
    /\ lastEvict.atCursor
    /\ proxies = <<2>>
    /\ served = <<2, 2>>

\* C3: in every reachable state the cursor indexes an entry of the pool or
\* the pool is empty, and every getNext/markDead call found it so.
C3_CursorInRange ==
    /\ Len(proxies) = 0 \/ (0 <= currentIndex /\ currentIndex < Len(proxies))
    /\ lastCall.op # "none" =>
          lastCall.size = 0 \/ (0 <= lastCall.idx /\ lastCall.idx < lastCall.size)
    /\ lastCall.op = "getNext" /\ lastCall.size > 0 => lastCall.ret # Nothing

\* an eviction left the cursor beyond the shrunk, non-empty pool and reset it
C3_Witness ==
    /\ lastCall.op = "markDead"
    /\ Len(proxies) > 0
    /\ lastCall.idx >= Len(proxies)
    /\ currentIndex = 0

\* the positions inside explorationLoop
LoopPcs == {"loopHead", "guard", "cookie", "actions", "fallback", "think"}

\* C4: the session's visited set never loses an element and never holds the
\* same URL twice, whatever page cycles, actions and recovery do.
C4_VisitedGrowsWithoutDuplicates ==
    /\ [](\A s \in Sessions : NoDuplicates(visitedUrls[s]))
    /\ [][\A s \in Sessions : IsPrefix(visitedUrls[s], visitedUrls'[s])]_vars

\* in the resumed loop an action navigated to a URL that was visited before
C4_Witness ==
    \E s \in Sessions :
        /\ attempt[s] = 1
        /\ pc[s] = "fallback"
        /\ Len(visitedUrls[s]) >= 2
        /\ pageUrl[s] \in Range(visitedUrls[s])
        /\ pageUrl[s] # visitedUrls[s][Len(visitedUrls[s])]

\* C5: the resumed loop runs with the visited set, target page count, target
\* duration and start time the session had when the fatal error was caught.
C5_RecoveryKeepsBudgets ==
    \A s \in Sessions :
        attempt[s] = 1 /\ pc[s] \in LoopPcs =>
            /\ IsPrefix(snap[s].visitedUrls, visitedUrls[s])
            /\ loopCtx[s].targetPages = snap[s].targetPages
            /\ loopCtx[s].targetDuration = snap[s].targetDuration
            /\ loopCtx[s].startTime = snap[s].startTime

\* a loop resumed after two pages were visited and time had passed
C5_Witness ==
    \E s \in Sessions :
        /\ attempt[s] = 1
        /\ pc[s] = "cookie"
        /\ Len(snap[s].visitedUrls) >= 2
        /\ clock[s] > startTime[s]

\* C6: a session makes at most one recovery attempt; a fatal error during or
\* after recovery is followed by no markDead, no proxy request, no browser
\* launch and no loop entry.
C6_AtMostOneRecovery ==
    \A s \in Sessions :
        /\ calls[s].markDead <= 1
        /\ calls[s].getNext <= 2
        /\ launched[s] <= 2
        /\ calls[s].loops <= 2
        /\ attempt[s] = 1 => pc[s] \notin {"catch", "cleanup", "recover"}
        /\ Len(fatalFrom[s]) >= 2 => pc[s] \in {"finally", "done"}

\* a second fatal error arose in the resumed loop and the session ended
C6_Witness ==
    \E s \in Sessions :
        /\ Len(fatalFrom[s]) = 2
        /\ calls[s].loops = 2
        /\ pc[s] = "done"

\* C7: a failure inside an action never leaves performRandomAction, so no
\* fatal error of a session arises from an action.
C7_ActionFailuresAbsorbed ==
    \A s \in Sessions : "action" \notin Range(fatalFrom[s])

\* C8: a session emits its report exactly once, when it ends, and nothing is
\* recorded after the report.
C8_ReportExactlyOnce ==
    \A s \in Sessions :
        /\ pc[s] # "done" => reports[s] = 0
        /\ pc[s] = "done" => /\ reports[s] = 1
                             /\ report[s] = GenerateReport(s)
                             /\ report[s].visitedUrls = visitedUrls[s]

\* a session that went through recovery has ended and reported its actions
C8_Witness ==
    \E s \in Sessions :
        /\ pc[s] = "done"
        /\ attempt[s] = 1
        /\ reports[s] = 1
        /\ report[s].totalActions >= 2
        /\ report[s].pagesVisited >= 2

\* C9: when a session has emitted its report, every handle it launched has
\* been released.
C9_HandlesReleased ==
    \A s \in Sessions : pc[s] = "done" => open[s] = {}

\* what a session owns
SessionView(s) == <<pc[s], attempt[s], targetPages[s], targetDuration[s], startTime[s],
                    visitedUrls[s], loopCtx[s], rVisited[s], totalActions[s],
                    proxyUsed[s], report[s], reports[s], session[s], open[s]>>

\* C10: a step of one session, a fatal error included, leaves what the other
\* sessions own unchanged, and main announces completion only after every
\* launched session has emitted its report.
C10_SessionsIndependent ==
    /\ [](mainPc = "complete" => \A s \in Active : pc[s] = "done" /\ reports[s] = 1)
    /\ [][mainPc = "running" =>
            \A s, t \in Sessions :
                s # t /\ SessionView(s)' # SessionView(s) => SessionView(t)' = SessionView(t)]_vars

\* one session ended after a fatal error, its sibling visited two pages
\* without any, and main announced completion
C10_Witness ==
    /\ mainPc = "complete"
    /\ \E s, t \in Active :
          /\ s # t
          /\ Len(fatalFrom[s]) >= 1
          /\ fatalFrom[t] = <<>>
          /\ report[t].pagesVisited >= 2

\* the action sub-loop of session s is over, the page URL is unchanged, the
\* page budget is unmet and the page has no unvisited same-origin link
NoLinkLeft(s) ==
    /\ AfterActions(s)
    /\ pageUrl[s] = currentUrl[s]
    /\ Len(visitedUrls[s]) < loopCtx[s].targetPages
    /\ InternalLinks(pageUrl[s]) \ Range(visitedUrls[s]) = {}

\* C11: a page cycle that reaches its fallback navigation with the page URL
\* unchanged and the page budget unmet, and finds no unvisited same-origin
\* link (the collection of the links itself did not fail), ends the
\* exploration loop in that cycle, logged as link exhaustion, whether or not
\* a budget is met.
C11_LinkExhaustionEndsLoop ==
    [][\A s \in Sessions :
          NoLinkLeft(s) /\ pc'[s] # pc[s] /\ fatalFrom'[s] = fatalFrom[s] =>
              /\ pc'[s] = "finally"
              /\ loopExit'[s].why = "links"
              /\ "noMoreLinks" \in loopExit'[s].log
              /\ visitedUrls'[s] = visitedUrls[s]]_vars

\* with a target of 3 pages, a loop ended by link exhaustion after 2 pages
\* and before its time was up
C11_Witness ==
    \E s \in Sessions :
        /\ pc[s] = "finally"
        /\ loopExit[s].why = "links"
        /\ loopCtx[s].targetPages = 3
        /\ Len(visitedUrls[s]) = 2
        /\ ~IsTimedOut(clock[s], loopCtx[s])

\* C12: the cause logged when the exploration loop ends is the reason it
\* ended: link exhaustion is logged only when the unvisited link set was
\* empty, and the duration limit only when the loop ended on its while
\* condition.
C12_LoggedCauseIsActualCause ==
    \A s \in Sessions :
        /\ "noMoreLinks" \in loopExit[s].log => loopExit[s].why = "links"
        /\ "duration" \in loopExit[s].log => loopExit[s].why \in {"time", "pages"}

\* C13: performRandomAction reports a navigation only for type, click and
\* back, and for those exactly when the page URL after the action differs
\* from the page URL before it; the other kinds always report none.
C13_NavigationFlag ==
    obs.fn = "cycle" /\ obs.n > 0 =>
        (obs.flag <=> NavigatedSinceAction(obs.cur, obs.before, obs.kind, obs.res, obs.url))

\* the width of the bucket of each kind, in hundredths, in cascade order
Widths == <<25, 12, 8, 18, 8, 7, 7, 15>>
KindOrder == <<"scroll", "hover", "type", "click", "back", "media", "zoom", "idle">>
RECURSIVE SumTo(_, _)
SumTo(w, i) == IF i = 0 THEN 0 ELSE w[i] + SumTo(w, i - 1)
\* the kind whose bucket holds the draw r
Bucket(r) == KindOrder[CHOOSE i \in DOMAIN Widths : SumTo(Widths, i - 1) <= r /\ r < SumTo(Widths, i)]

\* C14: one uniform draw selects exactly one kind by the cumulative
\* thresholds 0.25, 0.37, 0.45, 0.63, 0.71, 0.78, 0.85; the bucket widths
\* are 0.25, 0.12, 0.08, 0.18, 0.08, 0.07, 0.07, 0.15 and sum to 1, and
\* every kind is selectable.
C14_CumulativeThresholds ==
    /\ SumTo(Widths, Len(Widths)) = Cardinality(Rolls)
    /\ \A i \in DOMAIN KindOrder :
          Cardinality({r \in Rolls : KindOf(r) = KindOrder[i]}) = Widths[i]
    /\ ActionKinds = Range(KindOrder)
    /\ obs.fn = "cycle" /\ obs.n > 0 => obs.kind = Bucket(obs.roll)

\* the draw 0.70 selected the back action
C14_Witness ==
    obs.fn = "cycle" /\ obs.n > 0 /\ obs.roll = 70 /\ obs.kind = "back"

\* the entry lines of a file, counted without parsing
RECURSIVE EntryCount(_)
EntryCount(lines) ==
    IF lines = <<>> THEN 0
    ELSE (IF Head(lines).kind = "entry" THEN 1 ELSE 0) + EntryCount(Tail(lines))

\* C15: ProxyManager.initialize raises an error exactly when the file is
\* missing, or at least one entry was parsed and none passed the health
\* check; a file that exists and yields no entry completes without error,
\* runs no health check and leaves the pool empty.
C15_InitializeErrors ==
    obs.fn = "initialize" =>
        LET n == EntryCount(obs.file.lines)
            passed == obs.ok \cap (1 .. n)
        IN  /\ obs.out.error # "none" <=>
                  \/ ~obs.file.exists
                  \/ n >= 1 /\ passed = {}
            /\ obs.file.exists /\ n = 0 =>
                  obs.out.error = "none" /\ obs.out.probes = 0 /\ obs.out.pool = <<>>

\* both entries of a file were probed and none passed: initialize threw
C15_Witness ==
    /\ obs.fn = "initialize"
    /\ obs.file.exists
    /\ EntryCount(obs.file.lines) = 2
    /\ obs.out = [error |-> "noWorking", pool |-> <<>>, probes |-> 2]

\* the candidates at the positions of ok, in their original order
RECURSIVE Passed(_, _, _)
Passed(cands, ok, i) ==
    IF i > Len(cands) THEN <<>>
    ELSE (IF i \in ok THEN <<cands[i]>> ELSE <<>>) \o Passed(cands, ok, i + 1)

\* C17: filterWorkingProxies returns exactly the candidates whose probe
\* succeeded, in their original order, for every combination of probe
\* outcomes: a failing probe never drops a sibling of any chunk.
C17_FilterKeepsExactlyPassing ==
    obs.fn = "filter" => obs.working = Passed(obs.cands, obs.ok, 1)

\* two chunks; a probe fails in each, and the siblings are kept
C17_Witness ==
    /\ obs.fn = "filter"
    /\ obs.cands = <<1, 2, 2, 1>>
    /\ obs.ok = {1, 3}
    /\ obs.working = <<1, 2>>

\* initialization left no proxy: it threw, or nothing passed; no entry was
\* ever there to be marked dead
Proxyless == mainPc \in {"launch", "running", "complete"} /\ proxies = <<>> /\ dead = {}

\* C16: when proxy initialization raises an error or yields no proxy the
\* run goes on without proxies: the pool is empty, every configured session
\* is still started, and each session's getNext() returns nothing, so the
\* session runs without a proxy.
C16_ProxylessDegradation ==
    Proxyless =>
        /\ GetCount = 0
        /\ \A i \in DOMAIN served : served[i] = Nothing
        /\ \A s \in Active :
              /\ mainPc = "running" /\ pc[s] = "new" => ENABLED Run(s)
              /\ pc[s] # "new" => calls[s].getNext >= 1 /\ currentProxy[s] = Nothing
              /\ mainPc = "complete" => pc[s] = "done" /\ reports[s] = 1

\* a run of two instances without proxies came to its end, and both
\* instances had launched a browser
C16_Witness ==
    /\ Proxyless
    /\ mainPc = "complete"
    /\ Cardinality(Active) = Instances
    /\ \A s \in Active : launched[s] >= 1 /\ currentProxy[s] = Nothing

\* no selector, text pattern, container or consent frame of the page matches
NothingMatches(page) ==
    /\ \A i \in DOMAIN page.selectors : page.selectors[i] = "absent"
    /\ \A i \in DOMAIN page.texts : page.texts[i].button = "absent" /\ page.texts[i].link = "absent"
    /\ page.container = "absent"
    /\ \A i \in DOMAIN page.frames :
          \/ page.frames[i].main
          \/ ~page.frames[i].consent
          \/ /\ \A j \in DOMAIN page.frames[i].selectors : page.frames[i].selectors[j] = "absent"
             /\ \A j \in DOMAIN page.frames[i].texts : page.frames[i].texts[j] = "absent"

\* C18: handleCookieConsent returns true exactly when one tier performed a
\* successful click, performs at most one successful click per call, and
\* returns false without any click and without an error when nothing in
\* any tier matches.
C18_ConsentResult ==
    obs.fn = "cookies" =>
        /\ obs.out.ret <=> obs.out.good = 1
        /\ obs.out.good <= 1
        /\ NothingMatches(obs.page) =>
              ~obs.out.ret /\ obs.out.tries = 0 /\ ~obs.out.threw

\* the first selector's click threw, the second selector's click succeeded
\* although the text and the consent frame matched as well
C18_Witness ==
    /\ obs.fn = "cookies"
    /\ obs.page.selectors = <<"stuck", "ok">>
    /\ obs.page.texts[1].button = "ok"
    /\ Len(obs.page.frames) = 2 /\ obs.page.frames[2].consent
    /\ obs.page.frames[2].selectors = <<"ok">>
    /\ obs.out = [ret |-> TRUE, good |-> 1, tries |-> 2, threw |-> FALSE]

\* the file and the flags supply no target URL
NoUrlSupplied(file, cli) == file \in {"missing", "invalid", ""} /\ cli \in {"none", ""}

\* C19: when neither the config file nor the CLI flags supply a target URL,
\* loadConfig ends the process with exit status 1 after printing the usage,
\* before any proxy initialization, health check or session launch.
C19_NoUrlExitsBeforeAnything ==
    /\ \A file \in FileUrls : \A cli \in CliUrls :
          NoUrlSupplied(file, cli) =>
              LoadConfigOutcome(DefaultUrl, file, cli) = [url |-> "", exit |-> 1, usage |-> TRUE]
    /\ mainPc # "start" /\ config.url = "" =>
          /\ mainPc = "exit1"
          /\ proxies = <<>> /\ served = <<>> /\ lastCall.op = "none"
          /\ \A s \in Sessions : pc[s] = "new" /\ launched[s] = 0 /\ calls[s].getNext = 0

\* the run ended in loadConfig
C19_Witness ==
    mainPc = "exit1" /\ config.url = ""

\* C20: collectInternalLinks is idempotent on an unchanged page; every URL
\* it returns has the origin of the current page and is origin + path +
\* query with the hash stripped; no URL appears twice.
C20_InternalLinksSameOrigin ==
    obs.fn = "links" =>
        /\ obs.first = obs.second
        /\ NoDuplicates(obs.first)
        /\ \A i \in DOMAIN obs.first :
              /\ DOMAIN obs.first[i] = {"origin", "pathname", "search"}
              /\ LinkOrigin(obs.first[i]) = Origin(obs.url)

\* C21: every delay of the clamped Gaussian helper lies within its clamp
\* bounds: humanDelay(min, max) waits d with min <= d <= max, and the
\* reading duration lies in [3000, 12000].
C21_DelaysWithinClamp ==
    obs.fn = "delay" =>
        /\ obs.min <= obs.delay /\ obs.delay <= obs.max
        /\ 3000 <= obs.reading /\ obs.reading <= 12000

\* a sample three deviations below the mean was clamped to the lower bounds
C21_Witness ==
    /\ obs.fn = "delay"
    /\ obs.z0 = -3
    /\ GaussianRandom((obs.min + obs.max) \div 2, (obs.max - obs.min) \div 4, obs.z0) < obs.min
    /\ obs.delay = obs.min
    /\ obs.reading = 3000

\* C22: randomInt(min, max) with integers min <= max returns an integer v
\* with min <= v <= max for every draw of [0, 1), and every integer of
\* [min, max] is a possible result.
C22_RandomIntRange ==
    obs.fn = "randomInt" =>
        /\ obs.v \in Int
        /\ obs.min <= obs.v /\ obs.v <= obs.max
        /\ \A w \in obs.min .. obs.max : \E roll \in Rolls : RandomIntOf(obs.min, obs.max, roll) = w

\* the largest draw gave the upper bound
C22_Witness ==
    obs.fn = "randomInt" /\ obs.min = 1 /\ obs.max = 3 /\ obs.roll = 99 /\ obs.v = 3

\* the number of positions of a that hold v
Count(a, v) == Cardinality({i \in DOMAIN a : a[i] = v})

\* C23: shuffle(arr) returns a permutation of arr for every sequence of
\* draws: the same length and the same multiset of elements.
C23_ShuffleIsPermutation ==
    obs.fn = "shuffle" =>
        /\ Len(obs.result) = Len(obs.arr)
        /\ \A v \in Range(obs.arr) \cup Range(obs.result) : Count(obs.result, v) = Count(obs.arr, v)

\* an array with a repeated element came back in another order
C23_Witness ==
    /\ obs.fn = "shuffle"
    /\ obs.arr = <<1, 2, 2>>
    /\ obs.result = <<2, 2, 1>>

\* C24: after an exception escaped the exploration loop the session marks
\* its proxy dead only if it has one and the pool holds more than one, and
\* recovery goes: mark dead, release the handle, request a new proxy,
\* launch a handle, navigate to the target, resume the loop; no handle is
\* launched before the old one is released and a new proxy was obtained.
C24_RecoveryOrder ==
    [][\A s \in Sessions :
          /\ calls'[s].markDead # calls[s].markDead =>
                /\ pc[s] = "catch" /\ currentProxy[s] # Nothing /\ GetCount > 1
                /\ pc'[s] = "cleanup"
                /\ open'[s] = open[s] /\ calls'[s].getNext = calls[s].getNext
          /\ pc[s] = "cleanup" /\ pc'[s] # pc[s] =>
                /\ pc'[s] = "recover" /\ open'[s] = {}
                /\ calls'[s] = calls[s] /\ launched'[s] = launched[s]
          /\ pc[s] = "recover" /\ pc'[s] # pc[s] =>
                /\ calls'[s].getNext = calls[s].getNext + 1
                /\ launched'[s] = launched[s]
                /\ pc'[s] = (IF lastCall'.ret = Nothing THEN "finally" ELSE "recLaunch")
          /\ launched'[s] # launched[s] /\ calls[s].markDead > 0 =>
                /\ pc[s] = "recLaunch" /\ pc'[s] = "recGoto"
                /\ open[s] = {} /\ calls[s].getNext = 2
                /\ proxyUsed[s] # Nothing
          /\ pc[s] = "recGoto" /\ pc'[s] # pc[s] /\ fatalFrom'[s] = fatalFrom[s] =>
                /\ pc'[s] = "loopHead" /\ pageUrl'[s] = Target
                /\ calls'[s].loops = calls[s].loops + 1
    ]_vars

\* a session that marked its proxy dead runs the loop again on a second handle
C24_Witness ==
    \E s \in Sessions :
        /\ pc[s] = "loopHead"
        /\ calls[s] = [markDead |-> 1, getNext |-> 2, loops |-> 2]
        /\ launched[s] = 2
        /\ open[s] = {2}

\* C25: after the first fatal error of a session that has a proxy, the
\* session requests a new proxy from the pool, also when the pool holds
\* exactly one proxy; it ends without relaunching only if the pool had no
\* proxy to give.
C25_RequestsNewProxy ==
    \A s \in Sessions :
        pc[s] \in {"finally", "done"} /\ fatalFrom[s] # <<>> /\ currentProxy[s] # Nothing =>
            calls[s].getNext >= 2

\* C26: the target of a fallback navigation is always a same-origin link
\* of the current page that is not in the visited set at that moment, and
\* on success exactly that target is inserted into the visited set.
C26_FallbackTarget ==
    obs.fn = "navigate" =>
        /\ \A i \in DOMAIN obs.out.target :
              /\ LinkOrigin(obs.out.target[i]) = Origin(obs.url)
              /\ obs.out.target[i] \notin Range(obs.visited)
        /\ obs.out.nextUrl # <<>> =>
              /\ obs.out.nextUrl = obs.out.target
              /\ obs.out.visited = Append(obs.visited, obs.out.target[1])
        /\ obs.out.nextUrl = <<>> => obs.out.visited = obs.visited

\* C27: in a page cycle the scheduler is invoked at most as often as the
\* count drawn once for the cycle; no invocation starts once the session
\* is timed out, and none follows an invocation that reported navigation.
C27_ActionLoopBounded ==
    [][obs.fn = "cycle" /\ obs'.fn = "cycle" /\ obs' # obs =>
          /\ obs'.n = obs.n + 1
          /\ obs'.n <= obs.target
          /\ obs'.target = obs.target
          /\ obs.target \in 1 .. CycleActions
          /\ ~obs.timedOut
          /\ ~obs.flag
    ]_vars

\* a cycle that drew two actions stopped after the first, which was an
\* invocation that navigated
C27_Witness ==
    obs.fn = "cycle" /\ obs.target = 2 /\ obs.n = 1 /\ obs.flag /\ ~obs.timedOut

\* C28: whenever a URL is newly inserted into the visited set, here by a
\* navigation caused by a click or type action, a NAVIGATE action record
\* for that URL is recorded with it.
C28_InsertionRecordsNavigate ==
    obs.fn = "cycle" =>
        \A i \in DOMAIN obs.added :
            \E j \in DOMAIN obs.log : obs.log[j] = [action |-> "navigate", page |-> obs.added[i]]

\* C29: a page cycle that starts on a non-http page makes one navigation
\* attempt to the target URL and handles no consent and performs no action
\* on that page; when the attempt fails the loop ends normally: no
\* exception escapes and no recovery is triggered.
C29_NonHttpGuard ==
    [][\A s \in Sessions :
          /\ pc[s] = "loopHead" /\ pageUrl[s] = Blank /\ pc'[s] # pc[s] =>
                pc'[s] \in {"guard", "finally"}
          /\ pc[s] = "guard" /\ pc'[s] # pc[s] =>
                /\ pageUrl[s] = Blank
                /\ totalActions'[s] = totalActions[s]
                /\ visitedUrls'[s] = visitedUrls[s]
                /\ fatalFrom'[s] = fatalFrom[s]
                /\ calls'[s] = calls[s]
                /\ \/ pc'[s] = "loopHead" /\ pageUrl'[s] = Target
                   \/ /\ pc'[s] = "finally" /\ pageUrl'[s] = Blank
                      /\ loopExit'[s].why = "guard"
    ]_vars

\* the navigation attempt of the guard failed and the session went on to
\* its finally block without any fatal error
C29_Witness ==
    \E s \in Sessions :
        /\ pc[s] = "finally"
        /\ loopExit[s].why = "guard"
        /\ pageUrl[s] = Blank
        /\ fatalFrom[s] = <<>>
        /\ calls[s].markDead = 0

PosIn(ps, x) == CHOOSE i \in DOMAIN ps : ps[i] = x

\* C31: markDead(e) removes every entry whose address equals e's and nothing
\* else, the remaining entries keep their relative order, the cursor is
\* reset to 0 only when it is >= the new pool size and is otherwise
\* unchanged, and markDead of an entry whose address is not in the pool
\* leaves the list and the cursor unchanged.
C31_MarkDeadFrame ==
    obs.fn = "markDead" =>
        /\ Range(obs.out.pool) = {p \in Range(obs.pool) : Server(p) # Server(obs.e)}
        /\ NoDuplicates(obs.out.pool)
        /\ \A i, j \in DOMAIN obs.out.pool :
              i < j => PosIn(obs.pool, obs.out.pool[i]) < PosIn(obs.pool, obs.out.pool[j])
        /\ obs.out.idx # obs.idx => obs.out.idx = 0 /\ obs.idx >= Len(obs.out.pool)
        /\ obs.idx >= Len(obs.out.pool) => obs.out.idx = 0
        /\ (\A p \in Range(obs.pool) : Server(p) # Server(obs.e)) =>
              obs.out.pool = obs.pool /\ obs.out.idx = obs.idx

\* two entries of one address leave a pool of four, the two others stay in
\* order, and the cursor stays where it was
C31_Witness ==
    /\ obs.fn = "markDead"
    /\ obs.pool = <<1, 2, 3, 4>> /\ obs.e = 3 /\ obs.idx = 1
    /\ obs.out = [pool |-> <<2, 4>>, idx |-> 1]

\* the chunk the candidate at position p belongs to
ChunkOf(p) == ((p - 1) \div Concurrency) + 1

\* C32: during filterWorkingProxies at most `concurrency` probes are in
\* flight at any time: the candidates are probed in consecutive chunks of at
\* most `concurrency` entries, and no probe of a later chunk starts before
\* every probe of the previous chunks has completed.
C32_BoundedProbes ==
    obs.fn = "probing" =>
        /\ Cardinality(obs.inflight) <= Concurrency
        /\ \A i \in DOMAIN obs.chunks : Len(obs.chunks[i]) \in 1 .. Concurrency
        /\ \A p \in DOMAIN obs.cands :
              obs.chunks[ChunkOf(p)][p - (ChunkOf(p) - 1) * Concurrency] = obs.cands[p]
        /\ obs.started = {p \in DOMAIN obs.cands : ChunkOf(p) <= obs.k}
        /\ \A p \in obs.started : \A q \in DOMAIN obs.cands :
              ChunkOf(q) < ChunkOf(p) => q \in obs.started \ obs.inflight

\* the fourth candidate is being probed alone after the first three are done
C32_Witness ==
    /\ obs.fn = "probing"
    /\ Len(obs.cands) = 4
    /\ obs.k = 2 /\ obs.inflight = {4}
    /\ obs.started = 1 .. 4
    /\ obs.ok = {2}

\* C33: the back action is a no-op when the current page is not an http page
\* or the history depth is <= 1; when the back navigation lands on a
\* non-http page it issues a forward navigation to undo it and reports no
\* navigation; and a back action never inserts a URL into the visited set.
C33_BackAction ==
    obs.fn = "back" =>
        /\ (~IsHttp(obs.hist[obs.pos]) \/ Len(obs.hist) <= 1) =>
              /\ obs.out = [ret |-> NullUrl, issued |-> <<>>, pos |-> obs.pos]
              /\ ~obs.flag /\ obs.log = <<>>
        /\ (/\ IsHttp(obs.hist[obs.pos]) /\ obs.pos > 1 /\ obs.backOk
            /\ ~IsHttp(obs.hist[obs.pos - 1])) =>
              /\ obs.out.issued = <<"goBack", "goForward">>
              /\ obs.out.ret = NullUrl
              /\ ~obs.flag /\ obs.log = <<>>
              /\ obs.fwdOk => obs.out.pos = obs.pos
        /\ obs.added = <<>>

\* back from the target page led to about:blank and was undone by goForward
C33_Witness ==
    /\ obs.fn = "back"
    /\ obs.hist = <<Blank, Target, PageA>> /\ obs.pos = 2
    /\ obs.out = [ret |-> NullUrl, issued |-> <<"goBack", "goForward">>, pos |-> 2]
    /\ obs.added = <<>>

\* the entries of the pool have pairwise distinct addresses
DistinctAddresses(ps) == \A i, j \in DOMAIN ps : Server(ps[i]) = Server(ps[j]) => i = j

\* C34: recovery evictions never empty the pool: a pool of pairwise distinct
\* addresses that holds at least one proxy after initialization holds at
\* least one in every later state, whatever the number of failing sessions
\* and the interleaving of their recoveries; hence the proxy request of a
\* recovering session never returns nothing.
C34_PoolNeverEmptied ==
    [][/\ (mainPc # "init" /\ Len(proxies) >= 1 /\ DistinctAddresses(proxies)) =>
              Len(proxies') >= 1 /\ DistinctAddresses(proxies')
       /\ \A s \in Sessions :
             (pc[s] = "recover" /\ pc'[s] # "recover") =>
                 /\ lastCall'.op = "getNext" /\ lastCall'.ret # Nothing
                 /\ pc'[s] = "recLaunch"
    ]_vars

\* both sessions failed: the first evicted its proxy and was handed the
\* remaining one, the second found a pool of one and evicted nothing
C34_Witness ==
    \E s, t \in Sessions :
        /\ s # t
        /\ calls[s].markDead = 1 /\ pc[s] = "recLaunch"
        /\ fatalFrom[t] # <<>> /\ calls[t].markDead = 0 /\ pc[t] \in {"finally", "done"}
        /\ Len(proxies) = 1

\* the positions of ps after position k, in cyclic order, k itself last
CyclicAfter(ps, k) == [i \in 1 .. Len(ps) |-> ((k + i - 1) % Len(ps)) + 1]

\* the entry that follows position k in the cyclic order of the entries of
\* ps whose address is not addr
FollowerOf(ps, k, addr) ==
    LET order == CyclicAfter(ps, k)
        left == SelectSeq(order, LAMBDA j : Server(ps[j]) # addr)
    IN  IF left = <<>> THEN Nothing ELSE ps[Head(left)]

\* C35: eviction preserves the rotation order: after markDead(e) the next
\* getNext() returns the entry that follows the most recently returned
\* entry in the cyclic order of the remaining entries.
C35_EvictionKeepsRotation ==
    obs.fn = "evict" =>
        /\ obs.last = obs.pool[obs.k]
        /\ obs.next = FollowerOf(obs.pool, obs.k, Server(obs.e))

\* C36: in every state of a session with targetPages >= 1 the visited set
\* has at most targetPages members: a page cycle inserts at most one URL,
\* through a navigating click or type action or through the fallback link
\* navigation, never both.
C36_PageBudgetKept ==
    [][\A s \in Sessions :
          /\ targetPages'[s] >= 1 => Len(visitedUrls'[s]) <= targetPages'[s]
          /\ Len(visitedUrls'[s]) <= Len(visitedUrls[s]) + 1
          /\ (Len(visitedUrls'[s]) > Len(visitedUrls[s]) /\ pc[s] \in LoopPcs) =>
                \/ /\ pc[s] = "actions" /\ pc'[s] = "fallback"
                   /\ pageUrl'[s] # currentUrl'[s]
                \/ /\ pc[s] \in {"actions", "fallback"} /\ pc'[s] = "think"
                   /\ pageUrl[s] = currentUrl[s]
          /\ (pc[s] = "fallback" /\ pageUrl[s] # currentUrl[s]) =>
                visitedUrls'[s] = visitedUrls[s]
    ]_vars

\* a click or type action has inserted the last page of the budget, and
\* another cycle's fallback navigation an earlier one
C36_Witness ==
    \E s \in Sessions :
        /\ pc[s] = "fallback"
        /\ pageUrl[s] # currentUrl[s]
        /\ targetPages[s] = 3 /\ Len(visitedUrls[s]) = 3
        /\ pageUrl[s] = visitedUrls[s][3]

\* C37: whenever the exploration loop is running, in the initial attempt or
\* after recovery, the original target URL is a member of the session's
\* visited set and of the reporter's visited list.
C37_TargetVisitedWhileLooping ==
    \A s \in Sessions :
        pc[s] \in LoopPcs =>
            /\ Target \in Range(visitedUrls[s])
            /\ Target \in Range(rVisited[s])

\* the session has been started and its elapsed time has reached its target
\* duration
BudgetSpent(s) == pc[s] # "new" /\ clock[s] - startTime[s] >= targetDuration[s]

\* C38: once the elapsed time of a session has reached its target duration
\* the session starts no further navigation (no fallback link navigation, no
\* recovery navigation) and inserts no further URL into the visited set.
C38_NoNavigationAfterBudget ==
    [][\A s \in Sessions :
          BudgetSpent(s) =>
              /\ visitedUrls'[s] = visitedUrls[s]
              /\ pageUrl'[s] = pageUrl[s] \/ pageUrl'[s] = Blank
    ]_vars

\* C39: at every point of a session the reporter's visited-URL set equals
\* the session's visited set, member for member in insertion order, so the
\* emitted report's pages-visited count is |visited| and its URL list is the
\* visited set; the total action count of the report is the number of
\* records appended, which grows by appends only and never shrinks.
C39_ReporterMirrorsVisited ==
    [][\A s \in Sessions :
          /\ rVisited'[s] = visitedUrls'[s]
          /\ NoDuplicates(rVisited'[s])
          /\ IsPrefix(rVisited[s], rVisited'[s])
          /\ totalActions'[s] \in {totalActions[s], totalActions[s] + 1}
          /\ reports'[s] > reports[s] =>
                /\ report'[s].pagesVisited = Len(visitedUrls[s])
                /\ report'[s].visitedUrls = visitedUrls[s]
                /\ report'[s].totalActions = totalActions[s]
    ]_vars

\* a session has ended and has reported two pages and at least three records
C39_Witness ==
    \E s \in Sessions :
        /\ pc[s] = "done"
        /\ report[s].pagesVisited = 2
        /\ report[s].visitedUrls = <<Target, PageA>>
        /\ report[s].totalActions >= 3
        /\ rVisited[s] = visitedUrls[s]

\* C40: every session that has been started eventually ends and emits its
\* report, provided every call returns or fails and the clock advances with
\* each delay: the exploration loop cannot cycle forever, also when the
\* visited set has stopped growing.
C40_SessionTerminates ==
    \A s \in Sessions : (pc[s] # "new") ~> (pc[s] = "done" /\ reports[s] = 1)

\* a loop whose visited set stayed below the page budget has ended on the
\* duration limit
C40_Witness ==
    \E s \in Sessions :
        /\ pc[s] = "finally"
        /\ loopExit[s].why = "time"
        /\ targetPages[s] = 3 /\ Len(visitedUrls[s]) = 2
        /\ targetDuration[s] = 2
        /\ fatalFrom[s] = <<>>
====
